---- MODULE Spec2Model ----
(***************************************************************************)
(* Model of the concourse github-pr-comment resource: the source filter    *)
(* predicates of package actions, the check step (actions/check.go), and   *)
(* the in and out steps with the directory the one hands to the other.     *)
(*                                                                         *)
(* Strings that the program only compares for equality (PR states, labels, *)
(* associations, the when mode) are TLA+ strings.  Strings the program     *)
(* searches, formats or orders (comment bodies, regular expressions, the   *)
(* decimal fields of a Version, the repository name) are sequences of      *)
(* one-character strings, so that substring search, decimal formatting and *)
(* byte-wise comparison are computed and not assumed.                      *)
(***************************************************************************)
EXTENDS Integers, Sequences, FiniteSets, TLC

VARIABLES
  pc,          \* position of the operation under way
  source,      \* req.Source as the request gives it
  requestVersion, \* req.Version of the request given to Check (Nil = no check)
  when,        \* req.Source.When of Check's copy of the request
  i,           \* number of pulls the loop of Check has taken so far
  pull,        \* the pull request of the current iteration
  comments,    \* the answer of ListPullRequestComments, until the reviews are listed
  reviews,     \* the answer of ListPullRequestReviews for pull
  version,     \* the local variable version of Check (Nil = nil pointer)
  versions,    \* the local variable versions of Check
  trackStart,  \* len(versions) when the last comment or review loop began
  apiCalls,    \* the list calls made on the client: <<kind, pull number>>
  listed,      \* how many comments and reviews the remote has returned
  skipped,     \* numbers of the pulls that failed a test of the pull filters
  response,    \* what Check returned
  call,        \* SpecFilters: the predicate applied, its argument and result
  inRequest,   \* the version and params of the request given to In
  inResponse,  \* what In returned
  outRequest,  \* the params of the request given to Out
  outResponse, \* what Out returned
  dir,         \* the directory In writes and Out reads: file name -> content
  remote,      \* what the API holds when Out runs: the comments, the token's user
  env,         \* the environment variables of the process that runs Out
  mutations    \* the API calls that change the remote, in the order made

ioVars == <<inRequest, inResponse, outRequest, outResponse, dir, remote, env,
            mutations>>

vars == <<pc, source, requestVersion, when, i, pull, comments, reviews, version,
          versions, trackStart, apiCalls, listed, skipped, response, call,
          inRequest, inResponse, outRequest, outResponse, dir, remote, env,
          mutations>>

Nil == [nil |-> TRUE]

-----------------------------------------------------------------------------
(* Bounds of the model *)

\* longest list of a source field (states, labels, patterns) in SpecFilters
MaxList == 2
\* most pull requests ListPullRequests returns
MaxPulls == 2
\* most comments and reviews the remote returns during one check
MaxItems == 3

-----------------------------------------------------------------------------
(* Go strings *)

Digits == <<"0", "1", "2", "3", "4", "5", "6", "7", "8", "9">>

\* strconv.FormatInt(n, 10) / strconv.Itoa(n)
RECURSIVE FormatNat(_)
FormatNat(n) ==
  IF n < 10 THEN <<Digits[n + 1]>>
  ELSE FormatNat(n \div 10) \o <<Digits[(n % 10) + 1]>>

FormatInt(n) == IF n < 0 THEN <<"-">> \o FormatNat(0 - n) ELSE FormatNat(n)

\* the byte of a character of a decimal string
Byte(c) ==
  IF c = "-" THEN 45
  ELSE 48 + (CHOOSE d \in 0..9 : Digits[d + 1] = c)

\* a < b on Go strings: byte-wise lexicographic
RECURSIVE StringLessFrom(_, _, _)
StringLessFrom(a, b, k) ==
  IF k > Len(a) THEN k <= Len(b)
  ELSE IF k > Len(b) THEN FALSE
  ELSE IF Byte(a[k]) < Byte(b[k]) THEN TRUE
  ELSE IF Byte(a[k]) > Byte(b[k]) THEN FALSE
  ELSE StringLessFrom(a, b, k + 1)

StringLess(a, b) == StringLessFrom(a, b, 1)

\* strings.ToLower on the association and review-state names of the model
ToLower(s) ==
  CASE s = "OWNER" -> "owner"
    [] s = "Owner" -> "owner"
    [] s = "MEMBER" -> "member"
    [] s = "NONE" -> "none"
    [] s = "ALL" -> "all"
    [] s = "APPROVED" -> "approved"
    [] s = "Approved" -> "approved"
    [] s = "COMMENTED" -> "commented"
    [] s = "CHANGES_REQUESTED" -> "changes_requested"
    [] s = "Open" -> "open"
    [] s = "CLOSED" -> "closed"
    [] OTHER -> s

-----------------------------------------------------------------------------
(* regexp on the fragment of the syntax the model uses: a pattern is a     *)
(* sequence of tokens, each a literal character, "." (any character but    *)
(* newline), "^" (start of text), "$" (end of text), "(" or "(?P<name>",   *)
(* which open a group, ")", which closes it, or ")?", which closes it and  *)
(* makes it optional.  Groups are not nested.                              *)

\* the name of the group a token opens, "" when it names none
SubexpName(token) ==
  CASE token = "(?P<cmd>" -> "cmd"
    [] token = "(?P<arg>" -> "arg"
    [] token = "(?P<body>" -> "body"
    [] OTHER -> ""

IsOpen(token) == token = "(" \/ SubexpName(token) # ""

IsClose(token) == token \in {")", ")?"}

\* the place from k on of the token that closes the group open at k, 0 when
\* nothing closes it
RECURSIVE GroupEnd(_, _)
GroupEnd(pattern, k) ==
  IF k > Len(pattern) \/ IsOpen(pattern[k]) THEN 0
  ELSE IF IsClose(pattern[k]) THEN k
  ELSE GroupEnd(pattern, k + 1)

\* the parser's errors: missing closing ), unexpected ).  Two groups of one
\* name are no error: SubexpNames then holds the name twice.
regexpCompiles(pattern) ==
  /\ \A k \in DOMAIN pattern : IsOpen(pattern[k]) => GroupEnd(pattern, k + 1) > 0
  /\ \A k \in DOMAIN pattern :
       IsClose(pattern[k]) =>
         \E m \in 1..(k - 1) : IsOpen(pattern[m]) /\ GroupEnd(pattern, m + 1) = k

\* does pattern[k..] match text starting at position j
RECURSIVE regexpMatchHere(_, _, _, _)
regexpMatchHere(pattern, text, k, j) ==
  IF k > Len(pattern) THEN TRUE
  ELSE IF pattern[k] = "^" THEN j = 1 /\ regexpMatchHere(pattern, text, k + 1, j)
  ELSE IF pattern[k] = "$"
    THEN j = Len(text) + 1 /\ regexpMatchHere(pattern, text, k + 1, j)
  ELSE IF IsOpen(pattern[k])
    THEN \/ regexpMatchHere(pattern, text, k + 1, j)
         \/ /\ pattern[GroupEnd(pattern, k + 1)] = ")?"
            /\ regexpMatchHere(pattern, text, GroupEnd(pattern, k + 1) + 1, j)
  ELSE IF IsClose(pattern[k]) THEN regexpMatchHere(pattern, text, k + 1, j)
  ELSE IF j > Len(text) THEN FALSE
  ELSE IF pattern[k] = "." THEN regexpMatchHere(pattern, text, k + 1, j + 1)
  ELSE text[j] = pattern[k] /\ regexpMatchHere(pattern, text, k + 1, j + 1)

\* regexp.Match(pattern, text): (matched, err); a pattern that does not compile
\* gives (false, err)
regexpMatch(pattern, text) ==
  IF ~regexpCompiles(pattern) THEN [matched |-> FALSE, err |-> TRUE]
  ELSE [matched |-> \E j \in 1..(Len(text) + 1) : regexpMatchHere(pattern, text, 1, j),
        err |-> FALSE]

NoSubmatch == [matched |-> FALSE, caps |-> <<>>, end |-> 0]

\* the leftmost-first match of pattern[k..] at position j of text: the texts
\* the groups closed so far captured, and the place after the match; start is
\* where the open group began.  An optional group is taken when the rest
\* matches with it, and captures nothing when it is left out.
RECURSIVE regexpSubmatchHere(_, _, _, _, _, _)
regexpSubmatchHere(pattern, text, k, j, start, caps) ==
  IF k > Len(pattern) THEN [matched |-> TRUE, caps |-> caps, end |-> j]
  ELSE IF pattern[k] = "^"
    THEN IF j = 1 THEN regexpSubmatchHere(pattern, text, k + 1, j, start, caps)
         ELSE NoSubmatch
  ELSE IF pattern[k] = "$"
    THEN IF j = Len(text) + 1
         THEN regexpSubmatchHere(pattern, text, k + 1, j, start, caps)
         ELSE NoSubmatch
  ELSE IF IsOpen(pattern[k])
    THEN LET taken == regexpSubmatchHere(pattern, text, k + 1, j, j, caps)
             close == GroupEnd(pattern, k + 1)
         IN IF taken.matched \/ pattern[close] # ")?" THEN taken
            ELSE regexpSubmatchHere(pattern, text, close + 1, j, 0,
                                    Append(caps, <<>>))
  ELSE IF IsClose(pattern[k])
    THEN regexpSubmatchHere(pattern, text, k + 1, j, 0,
                            Append(caps, SubSeq(text, start, j - 1)))
  ELSE IF j > Len(text) THEN NoSubmatch
  ELSE IF pattern[k] = "." \/ text[j] = pattern[k]
    THEN regexpSubmatchHere(pattern, text, k + 1, j + 1, start, caps)
  ELSE NoSubmatch

\* Regexp.FindStringSubmatch(text) from position j on: the matched text and
\* the text of each group, or nil (the empty slice) when nothing matches
RECURSIVE FindStringSubmatch(_, _, _)
FindStringSubmatch(pattern, text, j) ==
  IF j > Len(text) + 1 THEN <<>>
  ELSE LET m == regexpSubmatchHere(pattern, text, 1, j, 0, <<>>)
       IN IF m.matched THEN <<SubSeq(text, j, m.end - 1)>> \o m.caps
          ELSE FindStringSubmatch(pattern, text, j + 1)

\* Regexp.SubexpNames(): "" for the whole pattern, then the name of each
\* group, "" for one that has none
SubexpNames(pattern) ==
  <<"">> \o [k \in DOMAIN SelectSeq(pattern, IsOpen) |->
               SubexpName(SelectSeq(pattern, IsOpen)[k])]

-----------------------------------------------------------------------------
(* Source filter predicates *)

\* for _, s := range list { if s == x { ...; break } }: was the body reached
RECURSIVE RangeFinds(_, _, _)
RangeFinds(list, x, k) ==
  IF k > Len(list) THEN FALSE
  ELSE IF list[k] = x THEN TRUE
  ELSE RangeFinds(list, x, k + 1)

requestsState_NoIgnore(src, state) ==
  IF Len(src.States) = 0 THEN state = "open" ELSE RangeFinds(src.States, state, 1)

requestsState(src, state) ==
  LET ret == IF Len(src.States) = 0 THEN state = "open"
             ELSE RangeFinds(src.States, state, 1)
  IN IF RangeFinds(src.IgnoreStates, state, 1) THEN FALSE ELSE ret

\* the nested loops of requestsLabels: for each rl of wanted, for each rr of
\* labels, rl == rr.GetName() reaches the body and leaves both loops
RECURSIVE LabelLoop(_, _, _)
LabelLoop(wanted, labels, k) ==
  IF k > Len(wanted) THEN FALSE
  ELSE IF RangeFinds(labels, wanted[k], 1) THEN TRUE
  ELSE LabelLoop(wanted, labels, k + 1)

requestsLabels_AllowWins(src, labels) ==
  LET deny == LabelLoop(src.IgnoreLabels, labels, 1)
  IN IF Len(src.Labels) = 0 THEN ~deny ELSE LabelLoop(src.Labels, labels, 1)

requestsLabels(src, labels) ==
  LET ret == IF Len(src.Labels) = 0 THEN TRUE
             ELSE LabelLoop(src.Labels, labels, 1)
  IN IF LabelLoop(src.IgnoreLabels, labels, 1) THEN FALSE ELSE ret

requestsCommenterAssociation_AllAnywhere(src, assoc) ==
  IF Len(src.CommenterAssociation) = 0
     \/ RangeFinds(src.CommenterAssociation, "all", 1)
  THEN TRUE
  ELSE LET lower == [k \in DOMAIN src.CommenterAssociation |->
                       ToLower(src.CommenterAssociation[k])]
       IN RangeFinds(lower, ToLower(assoc), 1)

requestsCommenterAssociation(src, assoc) ==
  IF Len(src.CommenterAssociation) = 0
     \/ (Len(src.CommenterAssociation) = 1 /\ src.CommenterAssociation[1] = "all")
  THEN TRUE
  ELSE LET lower == [k \in DOMAIN src.CommenterAssociation |->
                       ToLower(src.CommenterAssociation[k])]
       IN RangeFinds(lower, ToLower(assoc), 1)

requestsReviewState_EmptyAcceptsAll(src, state) ==
  LET lower == [k \in DOMAIN src.ReviewStates |-> ToLower(src.ReviewStates[k])]
  IN Len(src.ReviewStates) = 0 \/ RangeFinds(lower, ToLower(state), 1)

requestsReviewState(src, state) ==
  LET lower == [k \in DOMAIN src.ReviewStates |-> ToLower(src.ReviewStates[k])]
  IN RangeFinds(lower, ToLower(state), 1)

\* for _, c := range patterns { matched, _ := regexp.Match(c, text);
\*   if matched { ret = value } }: no break, the error is dropped
RECURSIVE RegexLoop(_, _, _, _, _)
RegexLoop(patterns, text, k, ret, value) ==
  IF k > Len(patterns) THEN ret
  ELSE RegexLoop(patterns, text, k + 1,
                 IF regexpMatch(patterns[k], text).matched THEN value ELSE ret,
                 value)

requestsCommentRegex_AllowWins(src, comment) ==
  IF Len(src.Comments) = 0
  THEN RegexLoop(src.IgnoreComments, comment, 1, TRUE, FALSE)
  ELSE RegexLoop(src.Comments, comment, 1, FALSE, TRUE)

requestsCommentRegex(src, comment) ==
  LET ret == IF Len(src.Comments) = 0 THEN TRUE
             ELSE RegexLoop(src.Comments, comment, 1, FALSE, TRUE)
  IN RegexLoop(src.IgnoreComments, comment, 1, ret, FALSE)

-----------------------------------------------------------------------------
(* Input sets *)

SeqsUpTo(S, n) == UNION {[1..m -> S] : m \in 0..n}

Range(list) == {list[k] : k \in DOMAIN list}

StateNames == {"open", "closed"}

LabelNames == {"bug", "wip"}

\* ok, ^n., k$ and the malformed (ok
Patterns == {<<"o", "k">>, <<"^", "n", ".">>, <<"k", "$">>, <<"(", "o", "k">>}

Bodies == {<<>>, <<"o", "k">>, <<"n", "o">>, <<"n", "o", "k">>, <<"o", "k", "n">>}

\* a source with every optional field left out of the request
EmptySource ==
  [Repository |-> <<"o", "/", "r">>, OnlyMergeable |-> FALSE, When |-> "",
   States |-> <<>>, IgnoreStates |-> <<>>,
   Labels |-> <<>>, IgnoreLabels |-> <<>>,
   Comments |-> <<>>, IgnoreComments |-> <<>>,
   CommenterAssociation |-> <<>>, ReviewStates |-> <<>>,
   MapCommentMeta |-> FALSE]

StateSources ==
  {[EmptySource EXCEPT !.States = a, !.IgnoreStates = b] :
     a \in SeqsUpTo(StateNames, MaxList), b \in SeqsUpTo(StateNames, MaxList)}

LabelSources ==
  {[EmptySource EXCEPT !.Labels = a, !.IgnoreLabels = b] :
     a \in SeqsUpTo(LabelNames, MaxList), b \in SeqsUpTo(LabelNames, MaxList)}

RegexSources ==
  {[EmptySource EXCEPT !.Comments = a, !.IgnoreComments = b] :
     a \in SeqsUpTo(Patterns, MaxList), b \in SeqsUpTo(Patterns, MaxList)}

\* entries of commenter_association, and the associations of comment authors
AssociationNames == {"all", "owner", "MEMBER"}

Associations == {"OWNER", "Owner", "member", "NONE", "all"}

AssociationSources ==
  {[EmptySource EXCEPT !.CommenterAssociation = a] :
     a \in SeqsUpTo(AssociationNames, MaxList)}

\* entries of review_states, and the states of reviews
ReviewStateNames == {"approved", "COMMENTED"}

ReviewStates == {"APPROVED", "Approved", "commented", "CHANGES_REQUESTED"}

ReviewStateSources ==
  {[EmptySource EXCEPT !.ReviewStates = a] :
     a \in SeqsUpTo(ReviewStateNames, MaxList)}

-----------------------------------------------------------------------------
(* SpecFilters: the predicates applied to drawn sources and arguments *)

NoResponse == [kind |-> "none"]

CheckIdle ==
  /\ when = source.When
  /\ i = 0 /\ pull = Nil /\ comments = <<>> /\ reviews = <<>>
  /\ version = Nil /\ versions = <<>> /\ trackStart = 0 /\ apiCalls = {}
  /\ listed = 0 /\ skipped = {} /\ response = NoResponse

\* a directory without files
EmptyDir == [name \in {} |-> Nil]

\* neither In nor Out has run
IoIdle ==
  /\ inRequest = Nil /\ inResponse = NoResponse
  /\ outRequest = Nil /\ outResponse = NoResponse
  /\ dir = EmptyDir /\ remote = Nil /\ env = Nil /\ mutations = <<>>

CheckUnchanged ==
  UNCHANGED <<when, i, pull, comments, reviews, version, versions,
              trackStart, apiCalls, listed, skipped, response, ioVars>>

InitFilters ==
  /\ pc = "filters"
  /\ source \in StateSources \cup LabelSources \cup RegexSources
                \cup AssociationSources \cup ReviewStateSources
  /\ requestVersion = Nil
  /\ call = Nil
  /\ CheckIdle
  /\ IoIdle

CallRequestsState ==
  /\ pc = "filters"
  /\ \E state \in StateNames :
       call' = [fn |-> "requestsState", arg |-> state,
                ret |-> requestsState(source, state)]
  /\ UNCHANGED <<pc, source, requestVersion>>
  /\ CheckUnchanged

CallRequestsLabels ==
  /\ pc = "filters"
  /\ \E labels \in SeqsUpTo(LabelNames, MaxList) :
       call' = [fn |-> "requestsLabels", arg |-> labels,
                ret |-> requestsLabels(source, labels)]
  /\ UNCHANGED <<pc, source, requestVersion>>
  /\ CheckUnchanged

CallRequestsCommentRegex ==
  /\ pc = "filters"
  /\ \E body \in Bodies :
       call' = [fn |-> "requestsCommentRegex", arg |-> body,
                ret |-> requestsCommentRegex(source, body)]
  /\ UNCHANGED <<pc, source, requestVersion>>
  /\ CheckUnchanged

CallRequestsCommenterAssociation ==
  /\ pc = "filters"
  /\ \E assoc \in Associations :
       call' = [fn |-> "requestsCommenterAssociation", arg |-> assoc,
                ret |-> requestsCommenterAssociation(source, assoc)]
  /\ UNCHANGED <<pc, source, requestVersion>>
  /\ CheckUnchanged

CallRequestsReviewState ==
  /\ pc = "filters"
  /\ \E state \in ReviewStates :
       call' = [fn |-> "requestsReviewState", arg |-> state,
                ret |-> requestsReviewState(source, state)]
  /\ UNCHANGED <<pc, source, requestVersion>>
  /\ CheckUnchanged

NextFilters ==
  \/ CallRequestsState
  \/ CallRequestsLabels
  \/ CallRequestsCommentRegex
  \/ CallRequestsCommenterAssociation
  \/ CallRequestsReviewState

SpecFilters == InitFilters /\ [][NextFilters]_vars

Called(fn) == call # Nil /\ call.fn = fn

-----------------------------------------------------------------------------
(* Claims on the filter predicates *)

\* C8: requestsState(state) is true exactly when state is not in ignore_states
\* and either states is empty and state = "open", or states is non-empty and
\* contains state; a state in both states and ignore_states is rejected.
C8_RequestsState ==
  Called("requestsState") =>
    /\ call.ret =
         (/\ call.arg \notin Range(source.IgnoreStates)
          /\ \/ source.States = <<>> /\ call.arg = "open"
             \/ source.States # <<>> /\ call.arg \in Range(source.States))
    /\ (call.arg \in Range(source.States) \cap Range(source.IgnoreStates)
          => call.ret = FALSE)

C8_Witness ==
  /\ Called("requestsState")
  /\ call.arg \in Range(source.States) \cap Range(source.IgnoreStates)
  /\ Len(source.States) = 2
  /\ call.ret = FALSE

\* C9: requestsLabels(labelSet) is true exactly when no ignore_labels entry is
\* in labelSet and either labels is empty or some labels entry is in labelSet;
\* a label set with both a requested and an ignored label is rejected.
C9_RequestsLabels ==
  Called("requestsLabels") =>
    /\ call.ret =
         (/\ Range(source.IgnoreLabels) \cap Range(call.arg) = {}
          /\ \/ source.Labels = <<>>
             \/ Range(source.Labels) \cap Range(call.arg) # {})
    /\ ((Range(source.Labels) \cap Range(call.arg) # {}
         /\ Range(source.IgnoreLabels) \cap Range(call.arg) # {})
          => call.ret = FALSE)

C9_Witness ==
  /\ Called("requestsLabels")
  /\ source.Labels = <<"bug">>
  /\ source.IgnoreLabels = <<"wip">>
  /\ call.arg = <<"bug", "wip">>
  /\ call.ret = FALSE

\* is lit a substring of text
Contains(text, lit) ==
  \E j \in 1..(Len(text) + 1) :
    /\ j + Len(lit) - 1 <= Len(text)
    /\ SubSeq(text, j, j + Len(lit) - 1) = lit

AnyMatches(patterns, text) ==
  \E k \in DOMAIN patterns : regexpMatch(patterns[k], text).matched

\* C10: requestsCommentRegex(body) is true exactly when no ignore_comments
\* pattern matches body and either comments is empty or some comments pattern
\* matches body, where a pattern without anchors matches anywhere in the body;
\* a body matched by an allow and by an ignore pattern is rejected.
C10_RequestsCommentRegex ==
  Called("requestsCommentRegex") =>
    /\ call.ret =
         (/\ ~AnyMatches(source.IgnoreComments, call.arg)
          /\ \/ source.Comments = <<>>
             \/ AnyMatches(source.Comments, call.arg))
    /\ ((AnyMatches(source.Comments, call.arg)
         /\ AnyMatches(source.IgnoreComments, call.arg)) => call.ret = FALSE)
    /\ regexpMatch(<<"o", "k">>, call.arg).matched = Contains(call.arg, <<"o", "k">>)

C10_Witness ==
  /\ Called("requestsCommentRegex")
  /\ source.Comments = <<<<"o", "k">>>>
  /\ source.IgnoreComments = <<<<"^", "n", ".">>>>
  /\ call.arg = <<"n", "o", "k">>
  /\ call.ret = FALSE

\* the spellings of one name that differ in the case of letters only
CaseFamilies ==
  {{"OWNER", "Owner", "owner"}, {"MEMBER", "member"}, {"NONE", "none"},
   {"ALL", "all"}, {"APPROVED", "Approved", "approved"},
   {"COMMENTED", "commented"}, {"CHANGES_REQUESTED", "changes_requested"}}

\* a and b are equal ignoring case
EqualIgnoringCase(a, b) == a = b \/ \E f \in CaseFamilies : a \in f /\ b \in f

ContainsIgnoringCase(list, x) ==
  \E k \in DOMAIN list : EqualIgnoringCase(list[k], x)

\* C12: requestsCommenterAssociation(assoc) is true exactly when
\* commenter_association is empty, or is the one-element list ["all"], or has
\* an entry equal to assoc ignoring case; otherwise, also for a longer list
\* that contains "all" but not assoc, it is false.
C12_RequestsCommenterAssociation ==
  Called("requestsCommenterAssociation") =>
    /\ call.ret =
         (\/ source.CommenterAssociation = <<>>
          \/ source.CommenterAssociation = <<"all">>
          \/ ContainsIgnoringCase(source.CommenterAssociation, call.arg))
    /\ ((/\ Len(source.CommenterAssociation) > 1
         /\ "all" \in Range(source.CommenterAssociation)
         /\ ~ContainsIgnoringCase(source.CommenterAssociation, call.arg))
          => call.ret = FALSE)

C12_Witness ==
  /\ Called("requestsCommenterAssociation")
  /\ source.CommenterAssociation = <<"all", "owner">>
  /\ call.arg = "NONE"
  /\ call.ret = FALSE

-----------------------------------------------------------------------------
(* Check: construction of the client *)

\* parseRepository: strings.Split(s, "/") must give two parts
parseRepository(repo) ==
  IF Cardinality({k \in DOMAIN repo : repo[k] = "/"}) + 1 # 2
  THEN [err |-> TRUE]
  ELSE [err |-> FALSE]

\* return nil, err: the versions collected so far are dropped
CheckFailure_Partial(collected, op) ==
  [kind |-> "ok", versions |-> collected]

CheckFailure(collected, op) == [kind |-> "error", op |-> op]

-----------------------------------------------------------------------------
(* Check: the tests a pull request passes before its comments are listed *)

\* "skip" (continue), "panic" (nil *pull.Mergeable dereferenced) or "take"
FilterPull_DraftsPass(src, p) ==
  IF ~requestsState(src, p.State) THEN "skip"
  ELSE IF ~requestsLabels(src, p.Labels) THEN "skip"
  ELSE IF src.OnlyMergeable /\ p.Mergeable = "nil" THEN "panic"
  ELSE IF src.OnlyMergeable /\ p.Mergeable = "false" THEN "skip"
  ELSE "take"

FilterPull(src, p) ==
  IF ~requestsState(src, p.State) THEN "skip"
  ELSE IF ~requestsLabels(src, p.Labels) THEN "skip"
  ELSE IF src.OnlyMergeable /\ p.Mergeable = "nil" THEN "panic"
  ELSE IF src.OnlyMergeable /\ p.Mergeable = "false" THEN "skip"
  ELSE IF p.Draft THEN "skip"
  ELSE "take"

-----------------------------------------------------------------------------
(* Check: the loops over the comments and the reviews of one pull request *)

\* &Version{CreatedAt: ..., PrID: ..., CommentID: ...}: ReviewID stays ""
CommentVersion(number, comment) ==
  [CreatedAt |-> FormatInt(comment.CreatedAt), PrID |-> FormatInt(number),
   ReviewID |-> <<>>, CommentID |-> FormatInt(comment.ID)]

ReviewVersion_KeepsCommentID(number, review) ==
  [CreatedAt |-> FormatInt(review.SubmittedAt), PrID |-> FormatInt(number),
   ReviewID |-> FormatInt(review.ID), CommentID |-> FormatInt(review.ID)]

\* &Version{CreatedAt: ..., PrID: ..., ReviewID: ...}: CommentID stays ""
ReviewVersion(number, review) ==
  [CreatedAt |-> FormatInt(review.SubmittedAt), PrID |-> FormatInt(number),
   ReviewID |-> FormatInt(review.ID), CommentID |-> <<>>]

\* the state of a loop: the variables version, latestCommentIsMatch (or
\* latestReviewIsMatch) and versions
LoopState(v, latest, vs) == [version |-> v, latestIsMatch |-> latest, versions |-> vs]

Matched_NewerOnly(src, st, v) ==
  [st |-> LoopState(v, TRUE,
                    IF /\ src.When = "all" \/ src.When = "first"
                       /\ StringLess(requestVersion.CreatedAt, v.CreatedAt)
                    THEN Append(st.versions, v) ELSE st.versions),
   break |-> src.When = "first"]

Matched_UnlessLatest(src, st, v) ==
  [st |-> LoopState(v, TRUE,
                    IF src.When # "latest"
                    THEN Append(st.versions, v) ELSE st.versions),
   break |-> src.When = "first"]

\* the body of the loop after a match: build the version, append it in the
\* modes all and first, tell whether the loop breaks
Matched(src, st, v) ==
  [st |-> LoopState(v, TRUE,
                    IF src.When = "all" \/ src.When = "first"
                    THEN Append(st.versions, v) ELSE st.versions),
   break |-> src.When = "first"]

RECURSIVE CommentLoop_NoReset(_, _, _, _, _)
CommentLoop_NoReset(src, number, list, k, st) ==
  IF k > Len(list) THEN st
  ELSE IF ~requestsCommenterAssociation(src, list[k].AuthorAssociation)
    THEN CommentLoop_NoReset(src, number, list, k + 1, st)
  ELSE IF ~requestsCommentRegex(src, list[k].Body)
    THEN CommentLoop_NoReset(src, number, list, k + 1, st)
  ELSE LET m == Matched(src, st, CommentVersion(number, list[k]))
       IN IF m.break THEN m.st
          ELSE CommentLoop_NoReset(src, number, list, k + 1, m.st)

RECURSIVE CommentLoop_NoBreak(_, _, _, _, _)
CommentLoop_NoBreak(src, number, list, k, st) ==
  IF k > Len(list) THEN st
  ELSE IF ~requestsCommenterAssociation(src, list[k].AuthorAssociation)
    THEN CommentLoop_NoBreak(src, number, list, k + 1,
                             [st EXCEPT !.latestIsMatch = FALSE])
  ELSE IF ~requestsCommentRegex(src, list[k].Body)
    THEN CommentLoop_NoBreak(src, number, list, k + 1,
                             [st EXCEPT !.latestIsMatch = FALSE])
  ELSE LET m == Matched(src, st, CommentVersion(number, list[k]))
       IN CommentLoop_NoBreak(src, number, list, k + 1, m.st)

\* for _, comment := range comments { ... } from comment k on
RECURSIVE CommentLoop(_, _, _, _, _)
CommentLoop(src, number, list, k, st) ==
  IF k > Len(list) THEN st
  ELSE IF ~requestsCommenterAssociation(src, list[k].AuthorAssociation)
    THEN CommentLoop(src, number, list, k + 1, [st EXCEPT !.latestIsMatch = FALSE])
  ELSE IF ~requestsCommentRegex(src, list[k].Body)
    THEN CommentLoop(src, number, list, k + 1, [st EXCEPT !.latestIsMatch = FALSE])
  ELSE LET m == Matched(src, st, CommentVersion(number, list[k]))
       IN IF m.break THEN m.st
          ELSE CommentLoop(src, number, list, k + 1, m.st)

RECURSIVE ReviewLoop_StateOnly(_, _, _, _, _)
ReviewLoop_StateOnly(src, number, list, k, st) ==
  IF k > Len(list) THEN st
  ELSE IF ~requestsReviewState(src, list[k].State)
    THEN ReviewLoop_StateOnly(src, number, list, k + 1,
                              [st EXCEPT !.latestIsMatch = FALSE])
  ELSE LET m == Matched(src, st, ReviewVersion(number, list[k]))
       IN IF m.break THEN m.st
          ELSE ReviewLoop_StateOnly(src, number, list, k + 1, m.st)

\* for _, review := range reviews { ... } from review k on
RECURSIVE ReviewLoop(_, _, _, _, _)
ReviewLoop(src, number, list, k, st) ==
  IF k > Len(list) THEN st
  ELSE IF ~requestsReviewState(src, list[k].State)
    THEN ReviewLoop(src, number, list, k + 1, [st EXCEPT !.latestIsMatch = FALSE])
  ELSE IF ~requestsCommentRegex(src, list[k].Body)
    THEN ReviewLoop(src, number, list, k + 1, [st EXCEPT !.latestIsMatch = FALSE])
  ELSE LET m == Matched(src, st, ReviewVersion(number, list[k]))
       IN IF m.break THEN m.st
          ELSE ReviewLoop(src, number, list, k + 1, m.st)

\* if req.Source.When == "latest" && latest...IsMatch { append(versions, *version) }
SaveLatest(src, st) ==
  IF src.When = "latest" /\ st.latestIsMatch
  THEN [st EXCEPT !.versions = Append(st.versions, st.version)]
  ELSE st

-----------------------------------------------------------------------------
(* Check: the final sort *)

\* the less function handed to sort.Slice: CreatedAt compared as strings
VersionLess(a, b) == StringLess(a.CreatedAt, b.CreatedAt)

\* insertionSort: the element x moves left past every element it is less than
RECURSIVE InsertionStep(_, _)
InsertionStep(sorted, x) ==
  IF sorted = <<>> THEN <<x>>
  ELSE IF VersionLess(x, sorted[Len(sorted)])
    THEN Append(InsertionStep(SubSeq(sorted, 1, Len(sorted) - 1), x),
                sorted[Len(sorted)])
  ELSE Append(sorted, x)

RECURSIVE InsertionSort(_, _, _)
InsertionSort(list, k, sorted) ==
  IF k > Len(list) THEN sorted
  ELSE InsertionSort(list, k + 1, InsertionStep(sorted, list[k]))

RemoveAt(list, k) == SubSeq(list, 1, k - 1) \o SubSeq(list, k + 1, Len(list))

\* every arrangement of the list that is sorted by VersionLess
RECURSIVE SortedArrangements(_)
SortedArrangements(list) ==
  IF list = <<>> THEN {<<>>}
  ELSE UNION {
         {<<list[k]>> \o rest : rest \in SortedArrangements(RemoveAt(list, k))} :
           k \in {m \in DOMAIN list :
                    \A n \in DOMAIN list : ~VersionLess(list[n], list[m])}}

\* the pass of quickSort over a short slice before its insertion sort, in
\* the releases before 1.19: for i := a + 6; i < b; i++ { if less(i, i-6)
\* { swap(i, i-6) } }.  Up to 12 elements no place is in two of the pairs.
ShellPass(list) ==
  [k \in DOMAIN list |->
     IF k + 6 <= Len(list) /\ VersionLess(list[k + 6], list[k]) THEN list[k + 6]
     ELSE IF k > 6 /\ VersionLess(list[k], list[k - 6]) THEN list[k - 6]
     ELSE list[k]]

\* sort.Slice(versions, less), the set of its possible outcomes.  Up to 12
\* elements the releases from 1.19 on run a plain insertion sort and the
\* earlier ones, those of the repository's pipeline (1.14, 1.15) among them,
\* the pass above and then the insertion sort, which differ from 7 elements
\* on; beyond 12 the sort is not stable, and the order of elements neither of
\* which is less than the other depends on the release.
SortSlice(list) ==
  IF Len(list) <= 6 THEN {InsertionSort(list, 1, <<>>)}
  ELSE IF Len(list) <= 12
    THEN {InsertionSort(list, 1, <<>>), InsertionSort(ShellPass(list), 1, <<>>)}
  ELSE SortedArrangements(list)

-----------------------------------------------------------------------------
(* Check: the requests and the remote data of the model *)

\* a source that sets every filter
StrictSource ==
  [EmptySource EXCEPT
     !.States = <<"closed", "open">>, !.IgnoreStates = <<"closed">>,
     !.Labels = <<"bug">>, !.IgnoreLabels = <<"wip">>,
     !.Comments = <<<<"o", "k">>>>, !.IgnoreComments = <<<<"^", "n", ".">>>>,
     !.CommenterAssociation = <<"owner">>, !.ReviewStates = <<"approved">>,
     !.OnlyMergeable = TRUE]

Whens == {"", "all", "latest", "first", "newest"}

Repositories == {<<"o", "/", "r">>, <<"o", "r">>}

\* the requests of check: the source with nothing set, and the source with
\* every filter set under each mode, each for a well-formed and a malformed
\* repository name; and the source with the malformed pattern
\* a source whose only text pattern, (ok, does not compile
MalformedSource ==
  [EmptySource EXCEPT !.Comments = <<<<"(", "o", "k">>>>, !.When = "all"]

CheckSources ==
  {[p EXCEPT !.Repository = r] :
     p \in {EmptySource} \cup {[StrictSource EXCEPT !.When = w] : w \in Whens},
     r \in Repositories}
    \cup {MalformedSource}

\* a pull request that passes every test of StrictSource
GoodPull(number) ==
  [Number |-> number, State |-> "open", Labels |-> <<"bug">>,
   Mergeable |-> "true", Draft |-> FALSE]

\* the pull requests the remote can return under a number: GoodPull and the
\* pulls that differ from it in one field; Mergeable is a pointer, which the
\* list endpoint may leave nil
Pulls(number) ==
  {GoodPull(number)}
    \cup {[GoodPull(number) EXCEPT !.State = "closed"]}
    \cup {[GoodPull(number) EXCEPT !.Labels = l] : l \in {<<>>, <<"bug", "wip">>}}
    \cup {[GoodPull(number) EXCEPT !.Mergeable = m] : m \in {"false", "nil"}}
    \cup {[GoodPull(number) EXCEPT !.Draft = TRUE]}

\* author association and body of the comments the remote returns: under
\* StrictSource the first passes both comment filters, the second fails the
\* association filter, the third the text filter
CommentKinds ==
  {[AuthorAssociation |-> "OWNER", Body |-> <<"o", "k">>],
   [AuthorAssociation |-> "NONE", Body |-> <<"o", "k">>],
   [AuthorAssociation |-> "OWNER", Body |-> <<"n", "o", "k">>]}

\* state and body of the reviews the remote returns
ReviewKinds ==
  {[State |-> "APPROVED", Body |-> <<"o", "k">>],
   [State |-> "COMMENTED", Body |-> <<"o", "k">>],
   [State |-> "APPROVED", Body |-> <<"n", "o", "k">>]}

\* creation times in Unix seconds
Times == {9, 10}

\* the remote lists comments and reviews oldest first
Chronological(n) ==
  {t \in [1..n -> Times] : \A k \in 1..(n - 1) : t[k] <= t[k + 1]}

CommentLists(number, n) ==
  {[k \in 1..n |-> [ID |-> 10 * number + k,
                    AuthorAssociation |-> c[k].AuthorAssociation,
                    Body |-> c[k].Body, CreatedAt |-> t[k]]] :
     c \in [1..n -> CommentKinds], t \in Chronological(n)}

ReviewLists(number, n) ==
  {[k \in 1..n |-> [ID |-> 10 * number + k, State |-> r[k].State,
                    Body |-> r[k].Body, SubmittedAt |-> t[k]]] :
     r \in [1..n -> ReviewKinds], t \in Chronological(n)}

\* the versions Concourse gives to check: none on the first check (every
\* field empty), and then the version check returned last, here that of
\* comment 11 of pull 1 created at time 10
RequestVersions ==
  {[CreatedAt |-> <<>>, PrID |-> <<>>, ReviewID |-> <<>>, CommentID |-> <<>>],
   [CreatedAt |-> <<"1", "0">>, PrID |-> <<"1">>, ReviewID |-> <<>>,
    CommentID |-> <<"1", "1">>]}

-----------------------------------------------------------------------------
(* Check *)

\* req with the When that Check has set in its copy
Req == [source EXCEPT !.When = when]

Init ==
  /\ pc = "start"
  /\ source \in CheckSources
  /\ requestVersion \in RequestVersions
  /\ call = Nil
  /\ CheckIdle
  /\ IoIdle

\* Check returns: its locals other than the result are gone
CheckLeaves ==
  /\ pc' = "done"
  /\ pull' = Nil
  /\ comments' = <<>>
  /\ reviews' = <<>>
  /\ version' = Nil
  /\ trackStart' = 0

\* api.NewGithubClient, then the default of When
CheckNewGithubClient ==
  /\ pc = "start"
  /\ IF parseRepository(source.Repository).err
     THEN /\ CheckLeaves
          /\ response' = CheckFailure(versions, "NewGithubClient")
          /\ UNCHANGED when
     ELSE /\ pc' = "list"
          /\ when' = IF Len(source.When) = 0 THEN "latest" ELSE source.When
          /\ UNCHANGED <<response, pull, comments, reviews, version, trackStart>>
  /\ UNCHANGED <<source, requestVersion, i, versions, apiCalls, listed, skipped, call, ioVars>>

\* pulls, err := client.ListPullRequests(); the answer is read by the loop one
\* pull at a time, in order, so its pulls and its end are drawn as the loop
\* reaches them
CheckListPullRequests ==
  /\ pc = "list"
  /\ \/ /\ apiCalls' = apiCalls \cup {[op |-> "ListPullRequests", number |-> 0, ok |-> FALSE]}
        /\ CheckLeaves
        /\ response' = CheckFailure(versions, "ListPullRequests")
     \/ /\ apiCalls' = apiCalls \cup {[op |-> "ListPullRequests", number |-> 0, ok |-> TRUE]}
        /\ pc' = "pulls"
        /\ UNCHANGED <<response, pull, comments, reviews, version, trackStart>>
  /\ UNCHANGED <<source, requestVersion, when, i, versions, listed, skipped, call, ioVars>>

\* the four tests of the pull filters, as the interface of check states them
PullAccepted(src, p) ==
  /\ requestsState(src, p.State)
  /\ requestsLabels(src, p.Labels)
  /\ (src.OnlyMergeable => p.Mergeable = "true")
  /\ ~p.Draft

\* an iteration of the loop over pulls, up to the listing of the comments
CheckPull ==
  /\ pc = "pulls"
  /\ i < MaxPulls
  /\ \E p \in Pulls(i + 1) :
       /\ skipped' = IF PullAccepted(Req, p) THEN skipped ELSE skipped \cup {p.Number}
       /\ LET verdict == FilterPull(Req, p)
          IN IF verdict = "panic"
             THEN /\ CheckLeaves
                  /\ response' = [kind |-> "panic"]
             ELSE /\ pc' = IF verdict = "take" THEN "comments" ELSE "pulls"
                  /\ pull' = p
                  /\ version' = Nil
                  /\ comments' = <<>>
                  /\ reviews' = <<>>
                  /\ UNCHANGED <<response, trackStart>>
  /\ i' = i + 1
  /\ UNCHANGED <<source, requestVersion, when, versions, apiCalls, listed, call, ioVars>>

\* comments, err := client.ListPullRequestComments(...) and the loop over them
CheckComments ==
  /\ pc = "comments"
  /\ \/ /\ apiCalls' = apiCalls \cup
             {[op |-> "ListPullRequestComments", number |-> pull.Number, ok |-> FALSE]}
        /\ CheckLeaves
        /\ response' = CheckFailure(versions, "ListPullRequestComments")
        /\ UNCHANGED <<versions, listed>>
     \/ /\ apiCalls' = apiCalls \cup
             {[op |-> "ListPullRequestComments", number |-> pull.Number, ok |-> TRUE]}
        /\ \E n \in 0..(MaxItems - listed) :
             \E list \in CommentLists(pull.Number, n) :
               LET st == SaveLatest(Req,
                           CommentLoop(Req, pull.Number, list, 1,
                                       LoopState(version, FALSE, versions)))
               IN /\ comments' = list
                  /\ listed' = listed + n
                  /\ version' = st.version
                  /\ versions' = st.versions
        /\ trackStart' = Len(versions)
        /\ pc' = "reviews"
        /\ UNCHANGED <<response, reviews, pull>>
  /\ UNCHANGED <<source, requestVersion, when, i, skipped, call, ioVars>>

\* reviews, err := client.ListPullRequestReviews(...) and the loop over them
CheckReviews ==
  /\ pc = "reviews"
  /\ \/ /\ apiCalls' = apiCalls \cup
             {[op |-> "ListPullRequestReviews", number |-> pull.Number, ok |-> FALSE]}
        /\ CheckLeaves
        /\ response' = CheckFailure(versions, "ListPullRequestReviews")
        /\ UNCHANGED <<versions, listed>>
     \/ /\ apiCalls' = apiCalls \cup
             {[op |-> "ListPullRequestReviews", number |-> pull.Number, ok |-> TRUE]}
        /\ \E n \in 0..(MaxItems - listed) :
             \E list \in ReviewLists(pull.Number, n) :
               LET st == SaveLatest(Req,
                           ReviewLoop(Req, pull.Number, list, 1,
                                      LoopState(version, FALSE, versions)))
               IN /\ reviews' = list
                  /\ comments' = <<>>
                  /\ listed' = listed + n
                  /\ version' = st.version
                  /\ versions' = st.versions
        /\ trackStart' = Len(versions)
        /\ pc' = "pulls"
        /\ UNCHANGED <<response, pull>>
  /\ UNCHANGED <<source, requestVersion, when, i, skipped, call, ioVars>>

\* the loop over pulls has ended: sort.Slice(versions, ...) and
\* return &versions, nil
CheckReturn ==
  /\ pc = "pulls"
  /\ \E sorted \in SortSlice(versions) :
       /\ versions' = sorted
       /\ response' = [kind |-> "ok", versions |-> sorted]
  /\ CheckLeaves
  /\ UNCHANGED <<source, requestVersion, when, i, apiCalls, listed, skipped, call, ioVars>>

Next ==
  \/ CheckNewGithubClient
  \/ CheckListPullRequests
  \/ CheckPull
  \/ CheckComments
  \/ CheckReviews
  \/ CheckReturn

Spec == Init /\ [][Next]_vars

\* check, and the filter predicates on their own
NextCheckAndFilters == Next \/ NextFilters

SpecCheckAndFilters == (Init \/ InitFilters) /\ [][NextCheckAndFilters]_vars

-----------------------------------------------------------------------------
(* Claims on check *)

\* the versions the last comment or review loop appended
TrackEmitted == SubSeq(versions, trackStart + 1, Len(versions))

\* the comment track of the current pull has just run on comments
CommentTrackDone == pc = "reviews"

CommentMatches(c) ==
  /\ requestsCommenterAssociation(Req, c.AuthorAssociation)
  /\ requestsCommentRegex(Req, c.Body)

MatchingComments == {k \in DOMAIN comments : CommentMatches(comments[k])}

\* version v references comment c of pull number n
RefersToComment(v, n, c) ==
  /\ v.PrID = FormatInt(n)
  /\ v.CommentID = FormatInt(c.ID)
  /\ v.ReviewID = <<>>

\* the value of a decimal string
RECURSIVE ParseNat(_)
ParseNat(str) ==
  IF str = <<>> THEN 0
  ELSE 10 * ParseNat(SubSeq(str, 1, Len(str) - 1))
         + (CHOOSE d \in 0..9 : Digits[d + 1] = str[Len(str)])

Returned == IF response.kind = "ok" THEN response.versions ELSE <<>>

\* C1: with when = "latest" or unset, the comment track of a pull that passes
\* the pull filters emits one version, for the last comment of the list, if
\* that comment passes the association and the text filter, and none otherwise,
\* even when earlier comments passed.
C1_Latest ==
  (CommentTrackDone /\ source.When \in {"", "latest"}) =>
    IF Len(comments) > 0 /\ CommentMatches(comments[Len(comments)])
    THEN /\ Len(TrackEmitted) = 1
         /\ RefersToComment(TrackEmitted[1], pull.Number, comments[Len(comments)])
    ELSE TrackEmitted = <<>>

C1_Witness ==
  /\ CommentTrackDone
  /\ source.When = ""
  /\ Len(comments) = 2
  /\ CommentMatches(comments[1])
  /\ ~CommentMatches(comments[2])
  /\ TrackEmitted = <<>>

\* C2: with when = "first", the comment track of a pull that passes the pull
\* filters emits one version, for the earliest matching comment in list order,
\* if a comment matches, and none otherwise; no later comment is emitted.
C2_First ==
  (CommentTrackDone /\ source.When = "first") =>
    IF MatchingComments = {} THEN TrackEmitted = <<>>
    ELSE LET k == CHOOSE m \in MatchingComments : \A n \in MatchingComments : m <= n
         IN /\ Len(TrackEmitted) = 1
            /\ RefersToComment(TrackEmitted[1], pull.Number, comments[k])

C2_Witness ==
  /\ CommentTrackDone
  /\ source.When = "first"
  /\ Len(comments) = 3
  /\ MatchingComments = {2, 3}
  /\ RefersToComment(TrackEmitted[1], pull.Number, comments[2])

\* the comment track in the mode all emits the matching comments, each once,
\* in list order
C3_TrackEmission ==
  (CommentTrackDone /\ source.When = "all") =>
    /\ Len(TrackEmitted) = Cardinality(MatchingComments)
    /\ \A k \in MatchingComments :
         \E m \in DOMAIN TrackEmitted :
           /\ RefersToComment(TrackEmitted[m], pull.Number, comments[k])
           /\ m = Cardinality({n \in MatchingComments : n <= k})

\* the comment versions of one pull stand in the result in the order of the
\* comments they reference (comment ids grow along the list)
C3_ResultOrder ==
  source.When = "all" =>
    \A a, b \in DOMAIN Returned :
      (/\ a < b
       /\ Returned[a].PrID = Returned[b].PrID
       /\ Returned[a].CommentID # <<>>
       /\ Returned[b].CommentID # <<>>)
        => ParseNat(Returned[a].CommentID) < ParseNat(Returned[b].CommentID)

\* C3: with when = "all", the comment track of a pull that passes the pull
\* filters emits one version per matching comment and none for the others, and
\* the versions of one pull appear in the result in the chronological order of
\* the comments they reference.
C3_All == C3_TrackEmission /\ C3_ResultOrder

\* C4: every version check collects or returns has a PR id and exactly one of
\* comment id and review id set, in every mode and for any mix of comments and
\* reviews on a pull.
C4_ExactlyOneId ==
  \A v \in Range(versions) \cup Range(Returned) :
    /\ v.PrID # <<>>
    /\ (v.CommentID # <<>>) # (v.ReviewID # <<>>)

C4_Witness ==
  \E a, b \in DOMAIN Returned :
    /\ Returned[a].PrID = Returned[b].PrID
    /\ Returned[a].CommentID # <<>>
    /\ Returned[b].ReviewID # <<>>

\* C5: when ListPullRequests, or ListPullRequestComments or
\* ListPullRequestReviews for a pull that passes the pull filters, fails, check
\* ends with an error and returns no version list, whatever it had collected.
C5_AllOrNothing ==
  (\E c \in apiCalls : ~c.ok) =>
    /\ pc = "done"
    /\ response.kind = "error"
    /\ "versions" \notin DOMAIN response

C5_Witness ==
  /\ \E c \in apiCalls : ~c.ok /\ c.op = "ListPullRequestReviews" /\ c.number = 2
  /\ \E v \in Range(versions) : v.PrID = FormatInt(1)
  /\ response.kind = "error"

\* C6: the list check returns is in non-decreasing order of the creation
\* time, compared as numbers, also when the decimal strings differ in length.
C6_NumericOrder ==
  \A a, b \in DOMAIN Returned :
    a < b => ParseNat(Returned[a].CreatedAt) <= ParseNat(Returned[b].CreatedAt)

\* C7: a pull whose state or labels the filters reject, that is not mergeable
\* while only_mergeable is set, or that is a draft, has no comments or reviews
\* listed and no version emitted.
C7_PullFilters ==
  \A n \in skipped :
    /\ \A c \in apiCalls : c.number # n
    /\ \A v \in Range(versions) \cup Range(Returned) : v.PrID # FormatInt(n)

C7_Witness ==
  /\ skipped = {1}
  /\ response.kind = "ok"
  /\ \E v \in Range(Returned) : v.PrID = FormatInt(2)

\* every pattern of comments and ignore_comments compiles
PatternsCompile(src) ==
  \A k \in DOMAIN (src.Comments \o src.IgnoreComments) :
    regexpCompiles((src.Comments \o src.IgnoreComments)[k])

\* the comment loop of the current pull has applied the text filter to a
\* comment: one that passed the association filter
TextFilterEvaluated ==
  /\ CommentTrackDone
  /\ \E k \in DOMAIN comments :
       requestsCommenterAssociation(Req, comments[k].AuthorAssociation)

\* C11: when a pattern of comments or ignore_comments does not compile, check
\* ends with an error once the text filter is evaluated; it does not go on
\* with the pattern counted as matching nothing.
C11_MalformedPatternFails ==
  (~PatternsCompile(source) /\ TextFilterEvaluated) => response.kind = "error"

\* C13: requestsReviewState(state) is true exactly when review_states has an
\* entry equal to state ignoring case, so never when review_states is empty;
\* with review_states empty check emits no version that carries a review id.
C13_RequestsReviewState ==
  /\ Called("requestsReviewState") =>
       /\ call.ret = ContainsIgnoringCase(source.ReviewStates, call.arg)
       /\ (source.ReviewStates = <<>> => call.ret = FALSE)
  /\ source.ReviewStates = <<>> =>
       \A v \in Range(versions) \cup Range(Returned) : v.ReviewID = <<>>

\* the reviews of a pull were listed under an empty review_states, the last
\* of them approved with a body every text filter accepts, and check returned
\* the version of a comment only
C13_Witness ==
  /\ source.ReviewStates = <<>>
  /\ \E c \in apiCalls : c.op = "ListPullRequestReviews" /\ c.ok
  /\ listed = MaxItems
  /\ response.kind = "ok"
  /\ Len(Returned) = 1
  /\ Returned[1].CommentID # <<>>

-----------------------------------------------------------------------------
(* In and Out: decimal parsing *)

IsDigits(str) == str # <<>> /\ \A k \in DOMAIN str : \E d \in 0..9 : Digits[d + 1] = str[k]

\* strconv.ParseInt(str, 10, 64) and strconv.Atoi(str) on the strings of the
\* model, all far from the limits of the type: an optional sign and digits,
\* otherwise (0, err)
ParseInt(str) ==
  IF IsDigits(str) THEN [value |-> ParseNat(str), err |-> FALSE]
  ELSE IF Len(str) > 1 /\ str[1] \in {"-", "+"} /\ IsDigits(Tail(str))
    THEN [value |-> IF str[1] = "-" THEN 0 - ParseNat(Tail(str))
                    ELSE ParseNat(Tail(str)),
          err |-> FALSE]
  ELSE [value |-> 0, err |-> TRUE]

-----------------------------------------------------------------------------
(* ParseCommentHTMLURL: net/url on the URLs of the model, which have an    *)
(* optional scheme, an optional //host, a path, an optional ?query and an  *)
(* optional #fragment, without user, port or control characters; the       *)
(* escapes of the path are those of digits, %30 to %39, or malformed.      *)

LowerLetters ==
  {"a", "b", "c", "d", "e", "f", "g", "h", "i", "j", "k", "l", "m", "n", "o",
   "p", "q", "r", "s", "t", "u", "v", "w", "x", "y", "z"}

UpperLetters ==
  {"A", "B", "C", "D", "E", "F", "G", "H", "I", "J", "K", "L", "M", "N", "O",
   "P", "Q", "R", "S", "T", "U", "V", "W", "X", "Y", "Z"}

\* ishex
HexDigits ==
  Range(Digits) \cup {"a", "b", "c", "d", "e", "f", "A", "B", "C", "D", "E", "F"}

\* the first place of the character in the string, 0 when it is not there
IndexOf(str, c) ==
  IF \E k \in DOMAIN str : str[k] = c
  THEN CHOOSE k \in DOMAIN str : str[k] = c /\ \A m \in 1..(k - 1) : str[m] # c
  ELSE 0

\* strings.Cut(str, c), the part before the first c
Before(str, c) ==
  IF IndexOf(str, c) = 0 THEN str ELSE SubSeq(str, 1, IndexOf(str, c) - 1)

After(str, k) == SubSeq(str, k + 1, Len(str))

\* getScheme: a letter, then letters, digits, "+", "-" and "." up to the
\* first ":"; a ":" in front is an error, any other character before the
\* ":" means that there is no scheme
getScheme(str) ==
  LET c == IndexOf(str, ":")
  IN IF c = 1 THEN [scheme |-> <<>>, rest |-> <<>>, err |-> TRUE]
     ELSE IF /\ c > 1
             /\ str[1] \in LowerLetters \cup UpperLetters
             /\ \A k \in 2..(c - 1) :
                  str[k] \in LowerLetters \cup UpperLetters \cup Range(Digits)
                               \cup {"+", "-", "."}
       THEN [scheme |-> SubSeq(str, 1, c - 1), rest |-> After(str, c), err |-> FALSE]
     ELSE [scheme |-> <<>>, rest |-> str, err |-> FALSE]

\* parseHost on a host without brackets and port, unescape(host, encodeHost):
\* does it return an error.  An escape must be two hexadecimal digits and,
\* in a host, stand for a byte from 0x80 on, or be %25.
parseHost(host) ==
  \E k \in DOMAIN host :
    /\ host[k] = "%"
    /\ \/ k + 2 > Len(host)
       \/ host[k + 1] \notin HexDigits
       \/ host[k + 2] \notin HexDigits
       \/ /\ host[k + 1] \in {"0", "1", "2", "3", "4", "5", "6", "7"}
          /\ <<host[k + 1], host[k + 2]>> # <<"2", "5">>

\* the authority step of parse on the URL after its scheme and before its
\* query: "//host" leads and the path is what follows the host
AfterAuthority(str) ==
  LET rest == After(str, 2)
      host == Before(rest, "/")
  IN IF parseHost(host) THEN [value |-> <<>>, err |-> TRUE]
     ELSE [value |-> After(rest, Len(host)), err |-> FALSE]

\* unescape(path, encodePath): %3d is the digit d; an escape that is not two
\* hexadecimal digits is an error
RECURSIVE unescape(_)
unescape(str) ==
  IF str = <<>> THEN [value |-> <<>>, err |-> FALSE]
  ELSE IF str[1] # "%"
    THEN LET rest == unescape(Tail(str))
         IN [value |-> <<str[1]>> \o rest.value, err |-> rest.err]
  ELSE IF Len(str) >= 3 /\ str[2] = "3" /\ IsDigits(<<str[3]>>)
    THEN LET rest == unescape(After(str, 3))
         IN [value |-> <<str[3]>> \o rest.value, err |-> rest.err]
  ELSE [value |-> <<>>, err |-> TRUE]

\* url.Parse(rawURL).Path: the fragment is cut, then the scheme, then the
\* query.  What does not start with "/" is opaque under a scheme (the path
\* stays empty) and must have no ":" in its first part without one; "//"
\* leads an authority, except "///" when there is no scheme.
urlParsePath(rawURL) ==
  LET s == getScheme(Before(rawURL, "#"))
      rest == Before(s.rest, "?")
      slash == Len(rest) >= 1 /\ rest[1] = "/"
      slashes == Len(rest) >= 2 /\ rest[1] = "/" /\ rest[2] = "/"
      three == Len(rest) >= 3 /\ slashes /\ rest[3] = "/"
      authority == IF slashes /\ (s.scheme # <<>> \/ ~three)
                   THEN AfterAuthority(rest)
                   ELSE [value |-> rest, err |-> FALSE]
  IN IF s.err THEN [value |-> <<>>, err |-> TRUE]
     ELSE IF ~slash /\ s.scheme # <<>> THEN [value |-> <<>>, err |-> FALSE]
     ELSE IF ~slash /\ IndexOf(Before(rest, "/"), ":") > 0
       THEN [value |-> <<>>, err |-> TRUE]
     ELSE IF authority.err THEN [value |-> <<>>, err |-> TRUE]
     ELSE unescape(authority.value)

\* parts[len(parts)-1] of strings.Split(str, "/")
RECURSIVE LastPart(_)
LastPart(str) ==
  IF IndexOf(str, "/") = 0 THEN str ELSE LastPart(After(str, IndexOf(str, "/")))

ParseCommentHTMLURL_WholeURL(prUrl) ==
  IF ParseInt(LastPart(prUrl)).err THEN [value |-> -1, err |-> TRUE]
  ELSE [value |-> ParseInt(LastPart(prUrl)).value, err |-> FALSE]

\* ParseCommentHTMLURL(prUrl): (number, nil) or (-1, err)
ParseCommentHTMLURL(prUrl) ==
  LET u == urlParsePath(prUrl)
  IN IF u.err THEN [value |-> -1, err |-> TRUE]
     ELSE IF ParseInt(LastPart(u.value)).err THEN [value |-> -1, err |-> TRUE]
     ELSE [value |-> ParseInt(LastPart(u.value)).value, err |-> FALSE]

-----------------------------------------------------------------------------
(* In and Out: encoding/json.  A document keeps the structure of the text  *)
(* (an object with its members, an array with its items) and the text of   *)
(* every string literal, quotes and escapes included.                      *)

\* the characters json.Marshal writes for one character of a string
jsonEscape(c) ==
  CASE c = "\"" -> <<"\\", "\"">>
    [] c = "\\" -> <<"\\", "\\">>
    [] c = "<" -> <<"\\", "u", "0", "0", "3", "c">>
    [] OTHER -> <<c>>

RECURSIVE jsonEscapeFrom(_, _)
jsonEscapeFrom(str, k) ==
  IF k > Len(str) THEN <<>> ELSE jsonEscape(str[k]) \o jsonEscapeFrom(str, k + 1)

\* a string as a JSON string literal
jsonQuote(str) == <<"\"">> \o jsonEscapeFrom(str, 1) \o <<"\"">>

\* the characters of a literal from position k up to its closing quote at
\* position last, decoded; err on a bare quote or an unknown escape
RECURSIVE jsonUnescapeFrom(_, _, _, _)
jsonUnescapeFrom(text, k, last, acc) ==
  IF k >= last THEN [value |-> acc, err |-> k > last]
  ELSE IF text[k] = "\"" THEN [value |-> <<>>, err |-> TRUE]
  ELSE IF text[k] # "\\"
    THEN jsonUnescapeFrom(text, k + 1, last, Append(acc, text[k]))
  ELSE IF k + 1 >= last THEN [value |-> <<>>, err |-> TRUE]
  ELSE IF text[k + 1] \in {"\"", "\\"}
    THEN jsonUnescapeFrom(text, k + 2, last, Append(acc, text[k + 1]))
  ELSE IF k + 5 < last /\ SubSeq(text, k + 1, k + 5) = <<"u", "0", "0", "3", "c">>
    THEN jsonUnescapeFrom(text, k + 6, last, Append(acc, "<"))
  ELSE [value |-> <<>>, err |-> TRUE]

\* a JSON value decoded into a Go string: it must be a string literal
jsonUnquote(text) ==
  IF Len(text) < 2 \/ text[1] # "\"" \/ text[Len(text)] # "\""
  THEN [value |-> <<>>, err |-> TRUE]
  ELSE jsonUnescapeFrom(text, 2, Len(text), <<>>)

\* the json tags of the fields of Version, in the order of the struct
VersionTags == <<"created_at", "pr_id", "review_id", "comment_id">>

ZeroVersion == [CreatedAt |-> <<>>, PrID |-> <<>>, ReviewID |-> <<>>, CommentID |-> <<>>]

VersionField(v, tag) ==
  CASE tag = "created_at" -> v.CreatedAt
    [] tag = "pr_id" -> v.PrID
    [] tag = "review_id" -> v.ReviewID
    [] tag = "comment_id" -> v.CommentID

SetVersionField(v, tag, value) ==
  CASE tag = "created_at" -> [v EXCEPT !.CreatedAt = value]
    [] tag = "pr_id" -> [v EXCEPT !.PrID = value]
    [] tag = "review_id" -> [v EXCEPT !.ReviewID = value]
    [] tag = "comment_id" -> [v EXCEPT !.CommentID = value]
    [] OTHER -> v

\* json.Marshal(version)
jsonMarshalVersion(v) ==
  [type |-> "object",
   members |-> [k \in DOMAIN VersionTags |->
                  [name |-> VersionTags[k],
                   text |-> jsonQuote(VersionField(v, VersionTags[k]))]]]

\* the members of an object decoded into a Version from member k on: a member
\* of a known name must be a string, a member of another name is skipped
RECURSIVE jsonDecodeVersion(_, _, _)
jsonDecodeVersion(members, k, v) ==
  IF k > Len(members) THEN [value |-> v, err |-> FALSE]
  ELSE IF members[k].name \notin Range(VersionTags)
    THEN jsonDecodeVersion(members, k + 1, v)
  ELSE LET str == jsonUnquote(members[k].text)
       IN IF str.err THEN [value |-> v, err |-> TRUE]
          ELSE jsonDecodeVersion(members, k + 1,
                                 SetVersionField(v, members[k].name, str.value))

\* json.Unmarshal(content, &version)
jsonUnmarshalVersion(content) ==
  IF content.kind # "json" \/ content.doc.type # "object"
  THEN [value |-> ZeroVersion, err |-> TRUE]
  ELSE jsonDecodeVersion(content.doc.members, 1, ZeroVersion)

\* json.Marshal(metadata): an array of {"name": ..., "value": ...}
jsonMarshalMetadata(metadata) ==
  [type |-> "array",
   items |-> [k \in DOMAIN metadata |->
                [name |-> metadata[k].Name, text |-> jsonQuote(metadata[k].Value)]]]

RECURSIVE jsonDecodeMetadata(_, _, _)
jsonDecodeMetadata(items, k, metadata) ==
  IF k > Len(items) THEN [value |-> metadata, err |-> FALSE]
  ELSE LET str == jsonUnquote(items[k].text)
       IN IF str.err THEN [value |-> metadata, err |-> TRUE]
          ELSE jsonDecodeMetadata(items, k + 1,
                 Append(metadata, [Name |-> items[k].name, Value |-> str.value]))

\* json.Unmarshal(content, &metadata)
jsonUnmarshalMetadata(content) ==
  IF content.kind # "json" \/ content.doc.type # "array"
  THEN [value |-> <<>>, err |-> TRUE]
  ELSE jsonDecodeMetadata(content.doc.items, 1, <<>>)

-----------------------------------------------------------------------------
(* In and Out: the files of the directory.  A file holds a JSON document   *)
(* or a text; none of the texts of the model is a JSON document.           *)

JsonFile(doc) == [kind |-> "json", doc |-> doc]

TextFile(text) == [kind |-> "text", text |-> text]

\* ioutil.ReadFile
ReadFile(d, name) ==
  IF name \in DOMAIN d THEN [content |-> d[name], err |-> FALSE]
  ELSE [content |-> TextFile(<<>>), err |-> TRUE]

\* ioutil.WriteFile, and os.Create followed by the writes on the file
WriteFile(d, name, content) ==
  [n \in DOMAIN d \cup {name} |-> IF n = name THEN content ELSE d[n]]

RECURSIVE MetadataGet_Default(_, _, _)
MetadataGet_Default(metadata, name, k) ==
  IF k > Len(metadata) THEN [value |-> <<"0">>, err |-> FALSE]
  ELSE IF metadata[k].Name = name THEN [value |-> metadata[k].Value, err |-> FALSE]
  ELSE MetadataGet_Default(metadata, name, k + 1)

\* Metadata.Get: the value of the first field of that name
RECURSIVE MetadataGet(_, _, _)
MetadataGet(metadata, name, k) ==
  IF k > Len(metadata) THEN [value |-> <<>>, err |-> TRUE]
  ELSE IF metadata[k].Name = name THEN [value |-> metadata[k].Value, err |-> FALSE]
  ELSE MetadataGet(metadata, name, k + 1)

-----------------------------------------------------------------------------
(* Out: os.Expand restricted to the variables of the build *)

Letters ==
  {"A", "B", "C", "D", "E", "F", "G", "H", "I", "J", "K", "L", "M", "N", "O",
   "P", "Q", "R", "S", "T", "U", "V", "W", "X", "Y", "Z", "a", "b", "c", "d",
   "e", "f", "g", "h", "i", "j", "k", "l", "m", "n", "o", "p", "q", "r", "s",
   "t", "u", "v", "w", "x", "y", "z"}

isShellSpecialVar(c) == c \in {"*", "#", "$", "@", "!", "?", "-"} \cup Range(Digits)

isAlphaNum(c) == c = "_" \/ c \in Range(Digits) \/ c \in Letters

\* the position of the first "}" of s at or after position q, 0 if none
RECURSIVE ClosingBrace(_, _)
ClosingBrace(s, q) ==
  IF q > Len(s) THEN 0
  ELSE IF s[q] = "}" THEN q
  ELSE ClosingBrace(s, q + 1)

\* how many characters from position q on are alphanumeric
RECURSIVE AlphaNumRun(_, _)
AlphaNumRun(s, q) ==
  IF q > Len(s) \/ ~isAlphaNum(s[q]) THEN 0 ELSE 1 + AlphaNumRun(s, q + 1)

\* getShellName(s[p:]): the name that starts at position p and the number of
\* characters it takes
getShellName(s, p) ==
  IF s[p] = "{"
  THEN IF Len(s) - p + 1 > 2 /\ isShellSpecialVar(s[p + 1]) /\ s[p + 2] = "}"
       THEN [name |-> <<s[p + 1]>>, w |-> 3]
       ELSE LET q == ClosingBrace(s, p + 1)
            IN IF q = 0 THEN [name |-> <<>>, w |-> 1]
               ELSE IF q = p + 1 THEN [name |-> <<>>, w |-> 2]
               ELSE [name |-> SubSeq(s, p + 1, q - 1), w |-> q - p + 1]
  ELSE IF isShellSpecialVar(s[p]) THEN [name |-> <<s[p]>>, w |-> 1]
  ELSE [name |-> SubSeq(s, p, p + AlphaNumRun(s, p) - 1), w |-> AlphaNumRun(s, p)]

BUILD_ID == <<"B", "U", "I", "L", "D", "_", "I", "D">>

BUILD_NAME == <<"B", "U", "I", "L", "D", "_", "N", "A", "M", "E">>

BUILD_JOB_NAME == <<"B", "U", "I", "L", "D", "_", "J", "O", "B", "_", "N", "A", "M", "E">>

BUILD_PIPELINE_NAME ==
  <<"B", "U", "I", "L", "D", "_", "P", "I", "P", "E", "L", "I", "N", "E", "_",
    "N", "A", "M", "E">>

BUILD_TEAM_NAME ==
  <<"B", "U", "I", "L", "D", "_", "T", "E", "A", "M", "_", "N", "A", "M", "E">>

ATC_EXTERNAL_URL ==
  <<"A", "T", "C", "_", "E", "X", "T", "E", "R", "N", "A", "L", "_", "U", "R", "L">>

\* the names of the switch of safeExpandEnv
AllowedNames ==
  {BUILD_ID, BUILD_NAME, BUILD_JOB_NAME, BUILD_PIPELINE_NAME, BUILD_TEAM_NAME,
   ATC_EXTERNAL_URL}

\* os.Getenv
Getenv(e, name) == IF name \in DOMAIN e THEN e[name] ELSE <<>>

\* the function safeExpandEnv hands to os.Expand
safeExpandEnvMapping(e, v) ==
  IF v \in AllowedNames THEN Getenv(e, v) ELSE <<"$">> \o v

\* os.Expand(s, mapping) from position j on
RECURSIVE ExpandFrom(_, _, _)
ExpandFrom(s, j, e) ==
  IF j > Len(s) THEN <<>>
  ELSE IF s[j] = "$" /\ j + 1 <= Len(s)
    THEN LET sh == getShellName(s, j + 1)
             piece == IF sh.name = <<>> /\ sh.w > 0 THEN <<>>
                      ELSE IF sh.name = <<>> THEN <<"$">>
                      ELSE safeExpandEnvMapping(e, sh.name)
         IN piece \o ExpandFrom(s, j + 1 + sh.w, e)
  ELSE <<s[j]>> \o ExpandFrom(s, j + 1, e)

safeExpandEnv(s, e) == ExpandFrom(s, 1, e)

-----------------------------------------------------------------------------
(* Out: the calls on the client.  A call that changes the remote is added  *)
(* to the calls made, with its outcome; failing names the call the remote  *)
(* answers with an error, by its operation and its rank among the calls of *)
(* that operation.                                                         *)

NoFailure == [op |-> "none", n |-> 0]

\* the calls made so far and whether the function returned an error
Outcome(calls, err) == [calls |-> calls, err |-> err]

\* how many calls of the operation have been made
Rank(calls, op) == Cardinality({k \in DOMAIN calls : calls[k].op = op})

\* one request that changes the remote
Mutate(calls, op, prID, arg, failing) ==
  LET ok == ~(failing.op = op /\ failing.n = Rank(calls, op) + 1)
  IN Outcome(Append(calls, [op |-> op, pr |-> prID, arg |-> arg, ok |-> ok]), ~ok)

SetPullRequestState_Unchecked(calls, prID, state, failing) ==
  Mutate(calls, "Issues.Edit", prID, state, failing)

\* SetPullRequestState
SetPullRequestState(calls, prID, state, failing) ==
  IF state \notin {"open", "closed"} THEN Outcome(calls, TRUE)
  ELSE Mutate(calls, "Issues.Edit", prID, state, failing)

\* the loop of DeleteLastPullRequestComment: commentID after the comments
\* from k on
RECURSIVE LastCommentOf(_, _, _, _)
LastCommentOf(list, user, k, commentID) ==
  IF k > Len(list) THEN commentID
  ELSE LastCommentOf(list, user, k + 1,
                     IF list[k].UserID = user THEN list[k].ID ELSE commentID)

RECURSIVE FirstCommentOf(_, _, _, _)
FirstCommentOf(list, user, k, commentID) ==
  IF k > Len(list) THEN commentID
  ELSE FirstCommentOf(list, user, k + 1,
                      IF list[k].UserID = user /\ commentID = 0
                      THEN list[k].ID ELSE commentID)

DeleteLastPullRequestComment_First(calls, prID, rem, failing) ==
  IF failing.op = "Issues.ListComments" THEN Outcome(calls, TRUE)
  ELSE IF failing.op = "Users.Get" THEN Outcome(calls, TRUE)
  ELSE LET commentID == FirstCommentOf(rem.comments, rem.user, 1, 0)
       IN IF commentID > 0
          THEN Mutate(calls, "Issues.DeleteComment", prID, commentID, failing)
          ELSE Outcome(calls, FALSE)

\* DeleteLastPullRequestComment
DeleteLastPullRequestComment(calls, prID, rem, failing) ==
  IF failing.op = "Issues.ListComments" THEN Outcome(calls, TRUE)
  ELSE IF failing.op = "Users.Get" THEN Outcome(calls, TRUE)
  ELSE LET commentID == LastCommentOf(rem.comments, rem.user, 1, 0)
       IN IF commentID > 0
          THEN Mutate(calls, "Issues.DeleteComment", prID, commentID, failing)
          ELSE Outcome(calls, FALSE)

\* AddPullRequestLabels
AddPullRequestLabels(calls, prID, labels, failing) ==
  Mutate(calls, "Issues.AddLabelsToIssue", prID, labels, failing)

\* RemovePullRequestLabels: one request for each label, from label k on
RECURSIVE RemovePullRequestLabels(_, _, _, _, _)
RemovePullRequestLabels(calls, prID, labels, k, failing) ==
  IF k > Len(labels) THEN Outcome(calls, FALSE)
  ELSE LET out == Mutate(calls, "Issues.RemoveLabelForIssue", prID, labels[k], failing)
       IN IF out.err THEN out
          ELSE RemovePullRequestLabels(out.calls, prID, labels, k + 1, failing)

\* ReplacePullRequestLabels
ReplacePullRequestLabels(calls, prID, labels, failing) ==
  Mutate(calls, "Issues.ReplaceLabelsForIssue", prID, labels, failing)

\* CreatePullRequestComment
CreatePullRequestComment(calls, prID, comment, failing) ==
  Mutate(calls, "Issues.CreateComment", prID, comment, failing)

-----------------------------------------------------------------------------
(* Out.  Its directory is filepath.Join(inputDir, req.Params.Path); each   *)
(* part below is a stretch of the function, entered with the outcome of    *)
(* the stretch before it and left at once when that outcome is an error.   *)

\* OutParams.Validate: does it return an error
Validate(params) ==
  IF params.State = "" THEN FALSE
  ELSE ToLower(params.State) \notin {"open", "closed"}

\* if req.Params.State != "" { ... }
OutSetState(st, prID, params, failing) ==
  IF st.err \/ params.State = "" THEN st
  ELSE SetPullRequestState(st.calls, prID, params.State, failing)

OutDeleteLastComment_Regardless(st, prID, params, rem, failing) ==
  IF ~params.DeleteLastComment THEN st
  ELSE DeleteLastPullRequestComment(st.calls, prID, rem, failing)

\* if req.Params.DeleteLastComment { ... }
OutDeleteLastComment(st, prID, params, rem, failing) ==
  IF st.err \/ ~params.DeleteLastComment THEN st
  ELSE DeleteLastPullRequestComment(st.calls, prID, rem, failing)

OutLabels_ReplaceAndAdd(st, prID, params, failing) ==
  IF st.err THEN st
  ELSE LET replaced == IF Len(params.Labels) > 0
                       THEN ReplacePullRequestLabels(st.calls, prID, params.Labels, failing)
                       ELSE st
           added == IF replaced.err \/ Len(params.AddLabels) = 0 THEN replaced
                    ELSE AddPullRequestLabels(replaced.calls, prID, params.AddLabels,
                                              failing)
       IN IF added.err \/ Len(params.RemoveLabels) = 0 THEN added
          ELSE RemovePullRequestLabels(added.calls, prID, params.RemoveLabels, 1,
                                       failing)

\* if len(req.Params.Labels) > 0 { replace } else { add; remove }
OutLabels(st, prID, params, failing) ==
  IF st.err THEN st
  ELSE IF Len(params.Labels) > 0
    THEN ReplacePullRequestLabels(st.calls, prID, params.Labels, failing)
  ELSE LET added == IF Len(params.AddLabels) > 0
                    THEN AddPullRequestLabels(st.calls, prID, params.AddLabels, failing)
                    ELSE st
       IN IF added.err \/ Len(params.RemoveLabels) = 0 THEN added
          ELSE RemovePullRequestLabels(added.calls, prID, params.RemoveLabels, 1,
                                       failing)

\* the text of the new comment: the parameter, else the file
OutComment(st, prID, params, d, e, failing) ==
  IF st.err THEN st
  ELSE LET file == IF Len(params.Comment) = 0 /\ params.CommentFile # ""
                   THEN ReadFile(d, params.CommentFile)
                   ELSE [content |-> TextFile(<<>>), err |-> FALSE]
           comment == IF Len(params.Comment) > 0 THEN params.Comment
                      ELSE file.content.text
       IN IF file.err THEN Outcome(st.calls, TRUE)
          ELSE IF Len(comment) > 0
            THEN CreatePullRequestComment(st.calls, prID, safeExpandEnv(comment, e),
                                          failing)
          ELSE st

\* what Out returns, and the calls it has made on the way
OutResult(resp, calls) == [response |-> resp, calls |-> calls]

OutError == [kind |-> "error"]

\* return &OutResponse{Version: version, Metadata: metadata}, nil
OutResponse_Recomputed(v, metadata) ==
  [kind |-> "ok",
   version |-> [ZeroVersion EXCEPT
                  !.PrID = MetadataGet(metadata, "pr_id", 1).value,
                  !.CommentID = MetadataGet(metadata, "comment_id", 1).value],
   metadata |-> metadata]

OutResponse(v, metadata) == [kind |-> "ok", version |-> v, metadata |-> metadata]

\* from the pr_id of the metadata to the end of Out
OutWithMetadata(src, params, v, metadata, d, rem, e, failing) ==
  LET prNumber == MetadataGet(metadata, "pr_id", 1)
      prID == ParseInt(prNumber.value)
  IN IF prNumber.err \/ prID.err THEN OutResult(OutError, <<>>)
     ELSE IF parseRepository(src.Repository).err THEN OutResult(OutError, <<>>)
     ELSE LET s1 == OutSetState(Outcome(<<>>, FALSE), prID.value, params, failing)
              s2 == OutDeleteLastComment(s1, prID.value, params, rem, failing)
              s3 == OutLabels(s2, prID.value, params, failing)
              s4 == OutComment(s3, prID.value, params, d, e, failing)
          IN IF s4.err THEN OutResult(OutError, s4.calls)
             ELSE OutResult(OutResponse(v, metadata), s4.calls)

\* Out(inputDir, req)
Out(src, params, d, rem, e, failing) ==
  IF Validate(params) THEN OutResult(OutError, <<>>)
  ELSE LET vfile == ReadFile(d, "version.json")
           v == jsonUnmarshalVersion(vfile.content)
           mfile == ReadFile(d, "metadata.json")
           metadata == jsonUnmarshalMetadata(mfile.content)
       IN IF vfile.err \/ v.err THEN OutResult(OutError, <<>>)
          ELSE IF mfile.err \/ metadata.err THEN OutResult(OutError, <<>>)
          ELSE OutWithMetadata(src, params, v.value, metadata.value, d, rem, e,
                               failing)

-----------------------------------------------------------------------------
(* In: what the API holds.  One pull request, one comment and one review   *)
(* on it; every other number is unknown to the API, which answers a        *)
(* request for it with an error.                                           *)

InPulls ==
  [n \in {1} |->
     [HeadRef |-> <<"h">>, HeadSHA |-> <<"a", "1">>,
      BaseRef |-> <<"m">>, BaseSHA |-> <<"b", "2">>]]

InComments ==
  [n \in {11} |->
     [ID |-> 11, Body |-> <<"p", "i", "n", "g">>,
      CreatedAt |-> <<"T", "9">>, UpdatedAt |-> <<"T", "1", "0">>,
      AuthorAssociation |-> <<"O", "W", "N", "E", "R">>,
      HTMLURL |-> <<"u", "/", "1", "#", "1", "1">>,
      UserLogin |-> <<"a", "m", "y">>, UserID |-> 5,
      UserAvatarURL |-> <<"u", "/", "a">>, UserHTMLURL |-> <<"u", "/", "5">>]]

InReviews ==
  [n \in {21} |->
     [ID |-> 21, Body |-> <<"o", "k">>,
      SubmittedAt |-> <<"T", "9">>,
      AuthorAssociation |-> <<"M", "E", "M", "B", "E", "R">>,
      HTMLURL |-> <<"u", "/", "1", "#", "2", "1">>,
      UserLogin |-> <<"b", "o", "b">>, UserID |-> 6,
      UserAvatarURL |-> <<"u", "/", "b">>, UserHTMLURL |-> <<"u", "/", "6">>]]

\* the zero time.Time as %v prints it
ZeroTime == <<"T", "0">>

-----------------------------------------------------------------------------
(* In *)

PullMetadata_NoHead(prId, p) ==
  [PRID |-> prId, PRHeadRef |-> <<>>, PRHeadSHA |-> <<>>,
   PRBaseRef |-> p.BaseRef, PRBaseSHA |-> p.BaseSHA,
   CommentID |-> 0, Body |-> <<>>, CreatedAt |-> <<"T", "0">>,
   UpdatedAt |-> <<"T", "0">>,
   AuthorAssociation |-> <<>>, HTMLURL |-> <<>>, UserLogin |-> <<>>, UserID |-> 0,
   UserAvatarURL |-> <<>>, UserHTMLURL |-> <<>>]

\* InMetadata{PRID: ..., PRHeadRef: ..., ...}: the other fields are zero
PullMetadata(prId, p) ==
  [PRID |-> prId, PRHeadRef |-> p.HeadRef, PRHeadSHA |-> p.HeadSHA,
   PRBaseRef |-> p.BaseRef, PRBaseSHA |-> p.BaseSHA,
   CommentID |-> 0, Body |-> <<>>, CreatedAt |-> ZeroTime, UpdatedAt |-> ZeroTime,
   AuthorAssociation |-> <<>>, HTMLURL |-> <<>>, UserLogin |-> <<>>, UserID |-> 0,
   UserAvatarURL |-> <<>>, UserHTMLURL |-> <<>>]

\* the assignments of the comment branch
CommentMetadata(metadata, comment) ==
  [metadata EXCEPT
     !.CommentID = comment.ID, !.Body = comment.Body,
     !.CreatedAt = comment.CreatedAt, !.UpdatedAt = comment.UpdatedAt,
     !.AuthorAssociation = comment.AuthorAssociation, !.HTMLURL = comment.HTMLURL,
     !.UserLogin = comment.UserLogin, !.UserID = comment.UserID,
     !.UserAvatarURL = comment.UserAvatarURL, !.UserHTMLURL = comment.UserHTMLURL]

\* the assignments of the review branch: UpdatedAt is not set
ReviewMetadata(metadata, review) ==
  [metadata EXCEPT
     !.CommentID = review.ID, !.Body = review.Body,
     !.CreatedAt = review.SubmittedAt,
     !.AuthorAssociation = review.AuthorAssociation, !.HTMLURL = review.HTMLURL,
     !.UserLogin = review.UserLogin, !.UserID = review.UserID,
     !.UserAvatarURL = review.UserAvatarURL, !.UserHTMLURL = review.UserHTMLURL]

\* serializeMetadata: one field for each field of InMetadata, in the order of
\* the struct, named by its json tag, its value printed with %v
serializeMetadata(meta) ==
  <<[Name |-> "pr_id", Value |-> FormatInt(meta.PRID)],
    [Name |-> "pr_head_ref", Value |-> meta.PRHeadRef],
    [Name |-> "pr_head_sha", Value |-> meta.PRHeadSHA],
    [Name |-> "pr_base_ref", Value |-> meta.PRBaseRef],
    [Name |-> "pr_base_sha", Value |-> meta.PRBaseSHA],
    [Name |-> "comment_id", Value |-> FormatInt(meta.CommentID)],
    [Name |-> "body", Value |-> meta.Body],
    [Name |-> "created_at", Value |-> meta.CreatedAt],
    [Name |-> "updated_at", Value |-> meta.UpdatedAt],
    [Name |-> "author_association", Value |-> meta.AuthorAssociation],
    [Name |-> "html_url", Value |-> meta.HTMLURL],
    [Name |-> "user_login", Value |-> meta.UserLogin],
    [Name |-> "user_id", Value |-> FormatInt(meta.UserID)],
    [Name |-> "user_avatar_url", Value |-> meta.UserAvatarURL],
    [Name |-> "user_html_url", Value |-> meta.UserHTMLURL]>>

\* getParams(regEx, comment): the map from the name of each group to the
\* text it captured; groups of one name, the unnamed ones among them, share
\* an entry that the last of them sets
getParams(regEx, comment) ==
  LET match == FindStringSubmatch(regEx, comment, 1)
      names == SubexpNames(regEx)
      groups == {k \in DOMAIN names : k > 1 /\ k - 1 <= Len(match)}
  IN [name \in {names[k] : k \in groups} |->
        match[CHOOSE k \in groups :
                /\ names[k] = name
                /\ \A m \in groups : names[m] = name => m <= k]]

\* if req.Source.MapCommentMeta { for _, commentStr := range Comments {...} }
\* from pattern k on.  regexp.MustCompile panics on a pattern that does not
\* compile; range over the map visits its entries in an order of the
\* runtime's choosing, here the order of their names in order.
RECURSIVE MapCommentMeta(_, _, _, _, _)
MapCommentMeta(serialized, patterns, body, k, order) ==
  IF k > Len(patterns) THEN [metadata |-> serialized, panic |-> FALSE]
  ELSE IF ~regexpCompiles(patterns[k]) THEN [metadata |-> serialized, panic |-> TRUE]
  ELSE LET extraMeta == getParams(patterns[k], body)
           keys == SelectSeq(order, LAMBDA name : name \in DOMAIN extraMeta)
       IN MapCommentMeta(
            serialized \o [x \in DOMAIN keys |->
                             [Name |-> keys[x], Value |-> extraMeta[keys[x]]]],
            patterns, body, k + 1, order)

\* what In returns, and the directory as it leaves it
InResult(resp, d) == [response |-> resp, dir |-> d]

InError(step) == [kind |-> "error", step |-> step]

\* does the step fail: failing names a step and its rank among the steps of
\* that name
Fails(failing, step, n) == failing.op = step /\ failing.n = n

RECURSIVE WriteFields_KeepFirst(_, _, _, _)
WriteFields_KeepFirst(d, serialized, k, failing) ==
  IF k > Len(serialized) THEN [dir |-> d, err |-> FALSE]
  ELSE IF Fails(failing, "ioutil.WriteFile", k + 2) \/ serialized[k].Name = ""
    THEN [dir |-> d, err |-> TRUE]
  ELSE IF serialized[k].Name \in DOMAIN d
    THEN WriteFields_KeepFirst(d, serialized, k + 1, failing)
  ELSE WriteFields_KeepFirst(
         [n \in DOMAIN d \cup {serialized[k].Name} |->
            IF n = serialized[k].Name THEN [kind |-> "text", text |-> serialized[k].Value]
            ELSE d[n]],
         serialized, k + 1, failing)

\* for _, d := range serialized { ioutil.WriteFile(...) } from field k on;
\* version.json and metadata.json were the first two files written.  The
\* file of a field without a name is the output directory itself, which
\* cannot be written as a file.
RECURSIVE WriteFields(_, _, _, _)
WriteFields(d, serialized, k, failing) ==
  IF k > Len(serialized) THEN [dir |-> d, err |-> FALSE]
  ELSE IF Fails(failing, "ioutil.WriteFile", k + 2) \/ serialized[k].Name = ""
    THEN [dir |-> d, err |-> TRUE]
  ELSE WriteFields(WriteFile(d, serialized[k].Name, TextFile(serialized[k].Value)),
                   serialized, k + 1, failing)

\* if !req.Params.SkipDownload { ... } and the return of In
InDownload(req, serialized, d, failing) ==
  IF req.Params.SkipDownload
  THEN InResult([kind |-> "ok", version |-> req.Version, metadata |-> serialized], d)
  ELSE LET sourcePath == IF req.Params.SourcePath # "" THEN req.Params.SourcePath
                         ELSE "source"
           d1 == WriteFile(d, sourcePath, [kind |-> "directory"])
       IN IF \/ Fails(failing, "os.MkdirAll", 2)
             \/ sourcePath \in DOMAIN d /\ d[sourcePath].kind # "directory"
          THEN InResult(InError("os.MkdirAll"), d)
          ELSE IF Fails(failing, "git", 1) THEN InResult(InError("git"), d1)
          ELSE IF req.Params.IntegrationTool \notin {"rebase", "", "merge", "checkout"}
            THEN InResult(InError("integration tool"), d1)
          ELSE InResult([kind |-> "ok", version |-> req.Version,
                         metadata |-> serialized], d1)

\* from json.Marshal(req.Version) on
InPersist(req, serialized, d, failing) ==
  LET d1 == WriteFile(d, "version.json", JsonFile(jsonMarshalVersion(req.Version)))
      d2 == WriteFile(d1, "metadata.json", JsonFile(jsonMarshalMetadata(serialized)))
      fields == WriteFields(d2, serialized, 1, failing)
  IN IF Fails(failing, "ioutil.WriteFile", 1) THEN InResult(InError("ioutil.WriteFile"), d)
     ELSE IF Fails(failing, "ioutil.WriteFile", 2)
       THEN InResult(InError("ioutil.WriteFile"), d1)
     ELSE IF fields.err THEN InResult(InError("ioutil.WriteFile"), fields.dir)
     ELSE InDownload(req, serialized, fields.dir, failing)

\* the branch on the ids of the version; d holds the comment file, empty
InEnrich(src, req, serialized, body, commentFile, d, failing, order) ==
  LET mapped == IF src.MapCommentMeta
                THEN MapCommentMeta(serialized, src.Comments, body, 1, order)
                ELSE [metadata |-> serialized, panic |-> FALSE]
  IN IF mapped.panic THEN InResult(InError("regexp.MustCompile"), d)
     ELSE IF Fails(failing, "File.WriteString", 1)
       THEN InResult(InError("File.WriteString"), d)
     ELSE InPersist(req, mapped.metadata,
                    WriteFile(d, commentFile, TextFile(body)), failing)

InFetch(src, req, prId, reviewId, commentId, metadata, commentFile, d, failing, order) ==
  IF commentId > 0
  THEN IF Fails(failing, "Issues.GetComment", 1) \/ commentId \notin DOMAIN InComments
       THEN InResult(InError("Issues.GetComment"), d)
       ELSE LET comment == InComments[commentId]
            IN InEnrich(src, req, serializeMetadata(CommentMetadata(metadata, comment)),
                        comment.Body, commentFile, d, failing, order)
  ELSE IF reviewId > 0 /\ prId > 0
  THEN IF Fails(failing, "PullRequests.GetReview", 1) \/ reviewId \notin DOMAIN InReviews
       THEN InResult(InError("PullRequests.GetReview"), d)
       ELSE LET review == InReviews[reviewId]
            IN InEnrich(src, req, serializeMetadata(ReviewMetadata(metadata, review)),
                        review.Body, commentFile, d, failing, order)
  ELSE InResult(InError("cannot extrapolate version"), d)

\* In(outputDir, req)
In(src, req, d, failing, order) ==
  LET prId == ParseInt(req.Version.PrID).value
      reviewId == ParseInt(req.Version.ReviewID).value
      commentId == ParseInt(req.Version.CommentID).value
      commentFile == IF req.Params.CommentFile # "" THEN req.Params.CommentFile
                     ELSE "comment.txt"
  IN IF parseRepository(src.Repository).err THEN InResult(InError("NewGithubClient"), d)
     ELSE IF Fails(failing, "PullRequests.Get", 1) \/ prId \notin DOMAIN InPulls
       THEN InResult(InError("PullRequests.Get"), d)
     ELSE IF Fails(failing, "os.MkdirAll", 1) THEN InResult(InError("os.MkdirAll"), d)
     ELSE IF Fails(failing, "os.Create", 1) THEN InResult(InError("os.Create"), d)
     ELSE IF Fails(failing, "File.Truncate", 1)
       THEN InResult(InError("File.Truncate"), WriteFile(d, commentFile, TextFile(<<>>)))
     ELSE InFetch(src, req, prId, reviewId, commentId,
                  PullMetadata(prId, InPulls[prId]), commentFile,
                  WriteFile(d, commentFile, TextFile(<<>>)), failing, order)

-----------------------------------------------------------------------------
(* In and Out: the requests, the directories and the remotes of the model *)

\* a version of a comment, as check emits it
CommentVersionOfPull == 
  [CreatedAt |-> <<"9">>, PrID |-> <<"1">>, ReviewID |-> <<>>, CommentID |-> <<"1", "1">>]

\* the versions given to In: of a comment, of a review, with neither id, with
\* both, with an id that is no number, with a creation time that needs
\* escapes in JSON, and of a pull request and of a comment the API does not
\* know
InVersions ==
  {CommentVersionOfPull,
   [CommentVersionOfPull EXCEPT !.ReviewID = <<"2", "1">>, !.CommentID = <<>>],
   [CommentVersionOfPull EXCEPT !.CommentID = <<>>],
   [CommentVersionOfPull EXCEPT !.ReviewID = <<"2", "1">>],
   [CommentVersionOfPull EXCEPT !.CommentID = <<"x">>],
   [CommentVersionOfPull EXCEPT !.CreatedAt = <<"\"", "<", "\\", "9">>],
   [CommentVersionOfPull EXCEPT !.PrID = <<>>, !.CommentID = <<>>],
   [CommentVersionOfPull EXCEPT !.CommentID = <<"1", "2">>]}

\* the params given to In: the comment file not named, named as no other
\* file In writes, and named as the file of a field, of the version and of
\* the metadata; and the pull request's code left out, integrated by the
\* default, and asked to be integrated by a tool In does not have
InParamsOf ==
  {[CommentFile |-> f, SourcePath |-> "", SkipDownload |-> TRUE,
    IntegrationTool |-> ""] :
     f \in {"", "c.txt", "user_login", "version.json", "metadata.json"}}
    \cup {[CommentFile |-> "", SourcePath |-> "", SkipDownload |-> FALSE,
           IntegrationTool |-> ""],
          [CommentFile |-> "", SourcePath |-> "src", SkipDownload |-> FALSE,
           IntegrationTool |-> "squash"]}

\* patterns with groups for the body ping: ^(?P<cmd>p)ing$,
\* (?P<cmd>pi)(?P<arg>ng), (?P<arg>x)?ping, (pi)ng, (?P<cmd>po)ng, ping,
\* (?P<body>pin)g and (?P<cmd>p)(?P<cmd>i)ng
GroupPatterns ==
  [one |-> <<"^", "(?P<cmd>", "p", ")", "i", "n", "g", "$">>,
   two |-> <<"(?P<cmd>", "p", "i", ")", "(?P<arg>", "n", "g", ")">>,
   optional |-> <<"(?P<arg>", "x", ")?", "p", "i", "n", "g">>,
   unnamed |-> <<"(", "p", "i", ")", "n", "g">>,
   other |-> <<"(?P<cmd>", "p", "o", ")", "n", "g">>,
   plain |-> <<"p", "i", "n", "g">>,
   body |-> <<"(?P<body>", "p", "i", "n", ")", "g">>,
   twice |-> <<"(?P<cmd>", "p", ")", "(?P<cmd>", "i", ")", "n", "g">>]

\* the sources of In: the repository well-formed or not, and map_comment_meta
\* set with one or two of the patterns, one of them malformed, or unset
InSources ==
  {[EmptySource EXCEPT !.Repository = r] : r \in Repositories}
    \cup {[EmptySource EXCEPT !.Comments = c, !.MapCommentMeta = TRUE] :
            c \in {<<GroupPatterns[n]>> : n \in DOMAIN GroupPatterns}
                    \cup {<<GroupPatterns.one, GroupPatterns.two>>,
                          <<GroupPatterns.other, GroupPatterns.optional>>,
                          <<<<"(", "o", "k">>>>}}
    \cup {[EmptySource EXCEPT !.Comments = <<GroupPatterns.one>>]}

\* the orders in which range visits the entries of the map of getParams,
\* by name: with at most two entries in a map these are all of them
MapOrders == {<<"", "arg", "body", "cmd">>, <<"cmd", "body", "arg", "">>}

\* the step of In that fails, if one does
InFailures ==
  {NoFailure}
    \cup {[op |-> o, n |-> 1] :
            o \in {"PullRequests.Get", "os.MkdirAll", "os.Create", "File.Truncate",
                   "Issues.GetComment", "PullRequests.GetReview", "File.WriteString",
                   "git"}}
    \cup {[op |-> "os.MkdirAll", n |-> 2]}
    \cup {[op |-> "ioutil.WriteFile", n |-> k] : k \in 1..4}

SECRET == <<"S", "E", "C", "R", "E", "T">>

\* texts of a new comment: without a reference, with references to a variable
\* of the build and to another variable, plain and in braces, and with a "$"
\* that starts no reference
Texts ==
  {<<"p", "o", "n", "g">>,
   <<"$">> \o BUILD_ID,
   <<"$", "{">> \o BUILD_ID \o <<"}", "x">>,
   <<"$">> \o SECRET \o <<" ">> \o <<"$">> \o BUILD_ID,
   <<"$">> \o SECRET,
   <<"$", "{">> \o SECRET \o <<"}", "x">>,
   <<"a", "$">>,
   <<"$", "{", "}", "b">>,
   <<"$", "{", "b">>}

\* the environments of Out: the build's id and a variable that is not the
\* build's, each with two values
Envs == [{BUILD_ID, SECRET} -> {<<"7">>, <<"8">>}]

\* the metadata In writes for the comment 11 of pull request 1
GoodMetadata ==
  serializeMetadata(CommentMetadata(PullMetadata(1, InPulls[1]), InComments[11]))

GoodDir ==
  WriteFile(WriteFile(WriteFile(EmptyDir,
    "version.json", JsonFile(jsonMarshalVersion(CommentVersionOfPull))),
    "metadata.json", JsonFile(jsonMarshalMetadata(GoodMetadata))),
    "comment.txt", TextFile(<<"$", "{">> \o SECRET \o <<"}", " ", "$">> \o BUILD_ID))

WithoutField(metadata, name) ==
  SelectSeq(metadata, LAMBDA field : field.Name # name)

\* the directories Out can find at its path when no In of this run wrote it:
\* nothing, what an In left, and that with one of the two files missing, not
\* JSON, JSON of the wrong shape, or without a usable pr_id
LeftDirs ==
  {EmptyDir, GoodDir,
   [n \in DOMAIN GoodDir \ {"version.json"} |-> GoodDir[n]],
   [n \in DOMAIN GoodDir \ {"metadata.json"} |-> GoodDir[n]],
   WriteFile(GoodDir, "version.json", TextFile(<<"{">>)),
   WriteFile(GoodDir, "version.json", JsonFile(jsonMarshalMetadata(GoodMetadata))),
   WriteFile(GoodDir, "metadata.json", TextFile(<<"[">>)),
   WriteFile(GoodDir, "metadata.json", JsonFile(jsonMarshalVersion(CommentVersionOfPull))),
   WriteFile(GoodDir, "metadata.json",
             JsonFile(jsonMarshalMetadata(WithoutField(GoodMetadata, "pr_id")))),
   WriteFile(GoodDir, "metadata.json",
             JsonFile(jsonMarshalMetadata(
               <<[Name |-> "pr_id", Value |-> <<"x">>]>> \o GoodMetadata)))}

NoParams ==
  [State |-> "", Comment |-> <<>>, CommentFile |-> "", Labels |-> <<>>,
   AddLabels |-> <<>>, RemoveLabels |-> <<>>, DeleteLastComment |-> FALSE]

\* params that ask for every change; with labels set, and with labels unset
FullParams ==
  {[State |-> st, Comment |-> <<"p", "o", "n", "g">>, CommentFile |-> "",
    Labels |-> l, AddLabels |-> <<"y">>, RemoveLabels |-> <<"z", "w">>,
    DeleteLastComment |-> TRUE] :
     st \in {"closed", "merged", "Open"}, l \in {<<>>, <<"x">>}}

\* params that ask for a state or for labels
PlainParams ==
  {[NoParams EXCEPT !.State = st] :
     st \in {"", "open", "closed", "Open", "CLOSED", "merged"}}
    \cup {[NoParams EXCEPT !.Labels = l, !.AddLabels = a, !.RemoveLabels = r] :
            l \in {<<>>, <<"x">>}, a \in {<<>>, <<"y">>},
            r \in {<<>>, <<"z">>, <<"z", "w">>}}

\* params that ask for a new comment, given or in a file
CommentParams ==
  {[NoParams EXCEPT !.Comment = t] : t \in Texts}
    \cup {[NoParams EXCEPT !.CommentFile = f] : f \in {"comment.txt", "none.txt"}}
    \cup {[NoParams EXCEPT !.Comment = <<"$">> \o SECRET, !.CommentFile = "comment.txt"]}

\* the call of Out the API answers with an error, if it does
OutFailures ==
  {NoFailure}
    \cup {[op |-> o, n |-> 1] :
            o \in {"Issues.Edit", "Issues.ListComments", "Users.Get",
                   "Issues.DeleteComment", "Issues.ReplaceLabelsForIssue",
                   "Issues.AddLabelsToIssue", "Issues.RemoveLabelForIssue",
                   "Issues.CreateComment"}}
    \cup {[op |-> "Issues.RemoveLabelForIssue", n |-> 2]}

\* the id of the user of the access token, and of another user
TokenUser == 1

OtherUser == 2

\* the comments on the pull request, oldest first, and the user of the token
Remotes ==
  {[comments |-> [k \in DOMAIN u |-> [ID |-> 30 + k, UserID |-> u[k]]],
    user |-> TokenUser] : u \in SeqsUpTo({TokenUser, OtherUser}, MaxItems)}

NoComments == [comments |-> <<>>, user |-> TokenUser]

\* a comment of the token's user between two of another user
MixedComments ==
  [comments |-> <<[ID |-> 31, UserID |-> OtherUser], [ID |-> 32, UserID |-> TokenUser],
                  [ID |-> 33, UserID |-> OtherUser]>>,
   user |-> TokenUser]

BuildEnv == [n \in {BUILD_ID, SECRET} |-> <<"7">>]

\* the runs of Out: its params with the comments of the pull request and the
\* environment.  The comments vary where the params ask for the deletion
\* alone, the environment where they ask for a comment alone.
OutRuns ==
  {[params |-> p, remote |-> NoComments, env |-> BuildEnv] : p \in PlainParams}
    \cup {[params |-> p, remote |-> NoComments, env |-> e] :
            p \in CommentParams, e \in Envs}
    \cup {[params |-> [NoParams EXCEPT !.DeleteLastComment = TRUE], remote |-> r,
           env |-> BuildEnv] : r \in Remotes}
    \cup {[params |-> p, remote |-> MixedComments, env |-> BuildEnv] : p \in FullParams}

\* the runs of Out after an In of a source that sets comments: the metadata
\* is all that differs, so one run that asks for every change and one of a
\* comment do
OutRunsOf(src) ==
  IF src.Comments = <<>> THEN OutRuns
  ELSE {run \in OutRuns :
          \/ run.params \in FullParams /\ run.params.State = "closed"
                /\ run.params.Labels = <<>>
          \/ run.params \in CommentParams /\ run.env = BuildEnv
                /\ run.params.Comment = <<"p", "o", "n", "g">>}

-----------------------------------------------------------------------------
(* SpecInOut: a get step that runs In on a fresh directory and a put step  *)
(* that runs Out on it, whatever In returned; or a put step alone, on the  *)
(* directory it finds; or a function of the client called on its own.      *)

InitInOut ==
  /\ \/ pc = "get" /\ dir = EmptyDir /\ source \in InSources
     \/ pc = "put" /\ dir \in LeftDirs /\ source \in InSources
                   /\ source.Comments = <<>>
     \/ pc = "client" /\ dir = EmptyDir /\ source = EmptySource
  /\ requestVersion = Nil
  /\ call = Nil
  /\ CheckIdle
  /\ inRequest = Nil /\ inResponse = NoResponse
  /\ outRequest = Nil /\ outResponse = NoResponse
  /\ remote = Nil /\ env = Nil /\ mutations = <<>>

InOutUnchanged ==
  UNCHANGED <<source, requestVersion, when, i, pull, comments, reviews, version, versions,
              trackStart, apiCalls, listed, skipped, response, call>>

\* res, err := In(args[0], req)
doInCmd ==
  /\ pc = "get"
  /\ \E v \in InVersions, p \in InParamsOf, failing \in InFailures,
        order \in MapOrders :
       LET req == [Version |-> v, Params |-> p]
           res == In(source, req, dir, failing, order)
       IN /\ inRequest' = req
          /\ inResponse' = res.response
          /\ dir' = res.dir
  /\ pc' = "put"
  /\ UNCHANGED <<outRequest, outResponse, remote, env, mutations>>
  /\ InOutUnchanged

\* res, err := Out(args[0], req)
doOutCmd ==
  /\ pc = "put"
  /\ \E run \in OutRunsOf(source), failing \in OutFailures :
       LET res == Out(source, run.params, dir, run.remote, run.env, failing)
       IN /\ outRequest' = run.params
          /\ remote' = run.remote
          /\ env' = run.env
          /\ outResponse' = res.response
          /\ mutations' = res.calls
  /\ pc' = "done"
  /\ UNCHANGED <<inRequest, inResponse, dir>>
  /\ InOutUnchanged

\* the URLs given to ParseCommentHTMLURL, in three parts: what leads to the
\* last part of the path (of issues, of pull, nothing, a scheme and no path,
\* a scheme and no authority, a colon and no scheme),
\* that part (numbers, plain, signed, with a leading zero and escaped, and
\* texts that are no number), and what follows it (nothing, a fragment, a
\* query, a slash, another part and a fragment)
CommentURLs ==
  [prefix : {<<"h", ":", "/", "/", "e", "/", "o", "/", "r", "/",
               "i", "s", "s", "u", "e", "s", "/">>,
             <<"h", ":", "/", "/", "e", "/", "o", "/", "r", "/", "p", "u", "l", "l", "/">>,
             <<>>, <<"h", ":", "/", "/">>, <<"h", ":">>, <<":">>},
   number : {<<"4", "2">>, <<"7">>, <<"0">>, <<"-", "3">>, <<"+", "5">>,
             <<"0", "4", "2">>, <<"%", "3", "4", "%", "3", "2">>,
             <<"4", "x">>, <<>>, <<"x">>, <<"%", "z", "z">>},
   suffix : {<<>>, <<"#", "i", "-", "7">>, <<"?", "a">>, <<"/">>,
             <<"/", "f", "#", "i", "-", "7">>}]

\* prNumber, err := api.ParseCommentHTMLURL(url)
CallParseCommentHTMLURL ==
  /\ pc = "client"
  /\ \E u \in CommentURLs :
       call' = [fn |-> "ParseCommentHTMLURL", arg |-> u,
                ret |-> ParseCommentHTMLURL(u.prefix \o u.number \o u.suffix)]
  /\ UNCHANGED <<pc, source, requestVersion, ioVars>>
  /\ UNCHANGED <<when, i, pull, comments, reviews, version, versions,
                 trackStart, apiCalls, listed, skipped, response>>

\* err = client.DeleteLastPullRequestComment(prID)
CallDeleteLastPullRequestComment ==
  /\ pc = "client"
  /\ \E rem \in Remotes, failing \in OutFailures :
       call' = [fn |-> "DeleteLastPullRequestComment",
                arg |-> [remote |-> rem, failing |-> failing],
                ret |-> DeleteLastPullRequestComment(<<>>, 1, rem, failing)]
  /\ UNCHANGED <<pc, source, requestVersion, ioVars>>
  /\ UNCHANGED <<when, i, pull, comments, reviews, version, versions,
                 trackStart, apiCalls, listed, skipped, response>>

NextInOut ==
  \/ doInCmd
  \/ doOutCmd
  \/ CallDeleteLastPullRequestComment
  \/ CallParseCommentHTMLURL

SpecInOut == InitInOut /\ [][NextInOut]_vars

-----------------------------------------------------------------------------
(* The In that takes the version by its Ref (src/unnamed/part_000): the    *)
(* version is the id of a comment, the number of the pull request is read  *)
(* from the URL of the comment, after the comment file is written, and the *)
(* pull request's code is not fetched.                                     *)

\* what the API holds for this In: the comment 11 and a comment whose URL
\* does not end in the number of a pull request
RefComments ==
  [n \in {11, 12} |->
     IF n = 11 THEN InComments[11]
     ELSE [InComments[11] EXCEPT !.ID = 12,
                                 !.HTMLURL = <<"u", "/", "x", "#", "1", "2">>]]

\* InMetadata{PRID: prNumber, CommentID: *comment.ID, ...}
RefMetadata(prNumber, comment) ==
  [PRID |-> prNumber, CommentID |-> comment.ID, Body |-> comment.Body,
   CreatedAt |-> comment.CreatedAt, UpdatedAt |-> comment.UpdatedAt,
   AuthorAssociation |-> comment.AuthorAssociation, HTMLURL |-> comment.HTMLURL,
   UserLogin |-> comment.UserLogin, UserID |-> comment.UserID,
   UserAvatarURL |-> comment.UserAvatarURL, UserHTMLURL |-> comment.UserHTMLURL]

\* serializeMetadata on the InMetadata of this In, which has no field of the
\* head or the base of the pull request
serializeRefMetadata(meta) ==
  <<[Name |-> "pr_id", Value |-> FormatInt(meta.PRID)],
    [Name |-> "comment_id", Value |-> FormatInt(meta.CommentID)],
    [Name |-> "body", Value |-> meta.Body],
    [Name |-> "created_at", Value |-> meta.CreatedAt],
    [Name |-> "updated_at", Value |-> meta.UpdatedAt],
    [Name |-> "author_association", Value |-> meta.AuthorAssociation],
    [Name |-> "html_url", Value |-> meta.HTMLURL],
    [Name |-> "user_login", Value |-> meta.UserLogin],
    [Name |-> "user_id", Value |-> FormatInt(meta.UserID)],
    [Name |-> "user_avatar_url", Value |-> meta.UserAvatarURL],
    [Name |-> "user_html_url", Value |-> meta.UserHTMLURL]>>

\* json.Marshal(req.Version) for a version that is one Ref
jsonMarshalRef(v) ==
  [type |-> "object", members |-> <<[name |-> "ref", text |-> jsonQuote(v.Ref)]>>]

\* from json.Marshal(req.Version) on
InByRefPersist(req, serialized, d, failing) ==
  LET d1 == WriteFile(d, "version.json", JsonFile(jsonMarshalRef(req.Version)))
      d2 == WriteFile(d1, "metadata.json", JsonFile(jsonMarshalMetadata(serialized)))
      fields == WriteFields(d2, serialized, 1, failing)
  IN IF Fails(failing, "ioutil.WriteFile", 1) THEN InResult(InError("ioutil.WriteFile"), d)
     ELSE IF Fails(failing, "ioutil.WriteFile", 2)
       THEN InResult(InError("ioutil.WriteFile"), d1)
     ELSE IF fields.err THEN InResult(InError("ioutil.WriteFile"), fields.dir)
     ELSE InResult([kind |-> "ok", version |-> req.Version, metadata |-> serialized],
                   fields.dir)

\* from f.WriteString(*comment.Body) to the loop of map_comment_meta; d holds
\* the comment file, empty
InByRefEnrich(src, req, comment, commentFile, d, failing, order) ==
  LET written == WriteFile(d, commentFile, TextFile(comment.Body))
      prNumber == ParseCommentHTMLURL(comment.HTMLURL)
      serialized == serializeRefMetadata(RefMetadata(prNumber.value, comment))
      mapped == IF src.MapCommentMeta
                THEN MapCommentMeta(serialized, src.Comments, comment.Body, 1, order)
                ELSE [metadata |-> serialized, panic |-> FALSE]
  IN IF Fails(failing, "File.WriteString", 1)
     THEN InResult(InError("File.WriteString"), d)
     ELSE IF prNumber.err THEN InResult(InError("ParseCommentHTMLURL"), written)
     ELSE IF mapped.panic THEN InResult(InError("regexp.MustCompile"), written)
     ELSE InByRefPersist(req, mapped.metadata, written, failing)

InByRef_ParseFirst(src, req, d, failing, order) ==
  LET commentID == ParseInt(req.Version.Ref)
      commentFile == IF req.Params.CommentFile # "" THEN req.Params.CommentFile
                     ELSE "comment.txt"
  IN IF parseRepository(src.Repository).err THEN InResult(InError("NewGithubClient"), d)
     ELSE IF commentID.err THEN InResult(InError("strconv.ParseInt"), d)
     ELSE IF \/ Fails(failing, "Issues.GetComment", 1)
             \/ commentID.value \notin DOMAIN RefComments
       THEN InResult(InError("Issues.GetComment"), d)
     ELSE IF ParseCommentHTMLURL(RefComments[commentID.value].HTMLURL).err
       THEN InResult(InError("ParseCommentHTMLURL"), d)
     ELSE IF Fails(failing, "os.MkdirAll", 1) THEN InResult(InError("os.MkdirAll"), d)
     ELSE IF Fails(failing, "os.Create", 1) THEN InResult(InError("os.Create"), d)
     ELSE IF Fails(failing, "File.Truncate", 1)
       THEN InResult(InError("File.Truncate"), WriteFile(d, commentFile, TextFile(<<>>)))
     ELSE InByRefEnrich(src, req, RefComments[commentID.value], commentFile,
                        WriteFile(d, commentFile, TextFile(<<>>)), failing, order)

\* In(outputDir, req) of src/unnamed/part_000
InByRef(src, req, d, failing, order) ==
  LET commentID == ParseInt(req.Version.Ref)
      commentFile == IF req.Params.CommentFile # "" THEN req.Params.CommentFile
                     ELSE "comment.txt"
  IN IF parseRepository(src.Repository).err THEN InResult(InError("NewGithubClient"), d)
     ELSE IF commentID.err THEN InResult(InError("strconv.ParseInt"), d)
     ELSE IF \/ Fails(failing, "Issues.GetComment", 1)
             \/ commentID.value \notin DOMAIN RefComments
       THEN InResult(InError("Issues.GetComment"), d)
     ELSE IF Fails(failing, "os.MkdirAll", 1) THEN InResult(InError("os.MkdirAll"), d)
     ELSE IF Fails(failing, "os.Create", 1) THEN InResult(InError("os.Create"), d)
     ELSE IF Fails(failing, "File.Truncate", 1)
       THEN InResult(InError("File.Truncate"), WriteFile(d, commentFile, TextFile(<<>>)))
     ELSE InByRefEnrich(src, req, RefComments[commentID.value], commentFile,
                        WriteFile(d, commentFile, TextFile(<<>>)), failing, order)

\* the versions given to this In: of the comment 11, of the comment whose URL
\* names no pull request, of a comment the API does not know, and two that
\* are no number
RefVersions ==
  {[Ref |-> r] : r \in {<<"1", "1">>, <<"1", "2">>, <<"1", "3">>, <<"x">>, <<>>}}

\* its params: the comment file not named, named as no other file In writes,
\* and named as the file of a field, of the version and of the metadata
RefParamsOf ==
  {[CommentFile |-> f] :
     f \in {"", "c.txt", "user_login", "version.json", "metadata.json"}}

\* the step of this In that fails, if one does: a call that comes once, or
\* the write of version.json, of metadata.json, of the file of the first
\* field, of user_login, of the last field of InMetadata or of the first
\* field of a group
RefFailures ==
  {NoFailure}
    \cup {[op |-> o, n |-> 1] :
            o \in {"Issues.GetComment", "os.MkdirAll", "os.Create", "File.Truncate",
                   "File.WriteString"}}
    \cup {[op |-> "ioutil.WriteFile", n |-> k] : k \in {1, 2, 3, 10, 13, 14}}

\* SpecInRef: a get step that runs this In on a fresh directory
InitInRef ==
  /\ pc = "get" /\ dir = EmptyDir /\ source \in InSources
  /\ requestVersion = Nil
  /\ call = Nil
  /\ CheckIdle
  /\ inRequest = Nil /\ inResponse = NoResponse
  /\ outRequest = Nil /\ outResponse = NoResponse
  /\ remote = Nil /\ env = Nil /\ mutations = <<>>

\* res, err := In(args[0], req), of src/unnamed/part_000
doInCmdByRef ==
  /\ pc = "get"
  /\ \E v \in RefVersions, p \in RefParamsOf, failing \in RefFailures,
        order \in MapOrders :
       LET req == [Version |-> v, Params |-> p]
           res == InByRef(source, req, dir, failing, order)
       IN /\ inRequest' = req
          /\ inResponse' = res.response
          /\ dir' = res.dir
  /\ pc' = "done"
  /\ UNCHANGED <<outRequest, outResponse, remote, env, mutations>>
  /\ InOutUnchanged

NextInRef == doInCmdByRef

SpecInRef == InitInRef /\ [][NextInRef]_vars

-----------------------------------------------------------------------------
(* Claims on in and out *)

OutDone == pc = "done"

\* the calls of the operations among the calls Out made
CallsOf(ops) == SelectSeq(mutations, LAMBDA c : c.op \in ops)

\* C14: the version out returns is, field for field, the version given to the
\* in before it: in writes the version of its request to version.json and
\* returns it, and out returns the version it reads from version.json, not one
\* it computes, whatever changes it makes.
C14_VersionRoundTrip ==
  /\ inResponse.kind = "ok" =>
       /\ inResponse.version = inRequest.Version
       /\ "version.json" \in DOMAIN dir
       /\ jsonUnmarshalVersion(dir["version.json"])
            = [value |-> inRequest.Version, err |-> FALSE]
  /\ (inRequest # Nil /\ outResponse.kind = "ok") =>
       outResponse.version = inRequest.Version

C14_Witness ==
  /\ inResponse.kind = "ok"
  /\ inRequest.Version.CreatedAt = <<"\"", "<", "\\", "9">>
  /\ outResponse.kind = "ok"
  /\ outResponse.version = inRequest.Version
  /\ Len(mutations) >= 4

\* version.json and metadata.json are there and decode
FilesDecode ==
  /\ {"version.json", "metadata.json"} \subseteq DOMAIN dir
  /\ ~jsonUnmarshalVersion(dir["version.json"]).err
  /\ ~jsonUnmarshalMetadata(dir["metadata.json"]).err

\* the metadata out reads has a field named pr_id
HasPrID ==
  /\ FilesDecode
  /\ \E k \in DOMAIN jsonUnmarshalMetadata(dir["metadata.json"]).value :
       jsonUnmarshalMetadata(dir["metadata.json"]).value[k].Name = "pr_id"

\* C15: when the metadata out reads has no field pr_id, or version.json or
\* metadata.json is missing or malformed, out fails and makes no call that
\* changes the remote.
C15_NoPrIdNoMutation ==
  (OutDone /\ ~HasPrID) => (outResponse.kind = "error" /\ mutations = <<>>)

C15_Witness ==
  /\ OutDone
  /\ FilesDecode
  /\ ~HasPrID
  /\ outRequest \in FullParams
  /\ outRequest.State = "closed"
  /\ outResponse.kind = "error"
  /\ mutations = <<>>

LabelOps ==
  {"Issues.ReplaceLabelsForIssue", "Issues.AddLabelsToIssue",
   "Issues.RemoveLabelForIssue"}

\* C16: with labels non-empty out makes one label call, the replacement by
\* labels, and neither adds nor removes labels even when add_labels and
\* remove_labels are non-empty; it adds and removes only when labels is empty.
C16_ReplaceWins ==
  OutDone =>
    /\ Len(outRequest.Labels) > 0 =>
         /\ CallsOf(LabelOps) \in
              {<<>>, <<[op |-> "Issues.ReplaceLabelsForIssue", pr |-> 1,
                        arg |-> outRequest.Labels, ok |-> TRUE]>>,
               <<[op |-> "Issues.ReplaceLabelsForIssue", pr |-> 1,
                  arg |-> outRequest.Labels, ok |-> FALSE]>>}
         /\ (outResponse.kind = "ok" => Len(CallsOf(LabelOps)) = 1)
    /\ Len(outRequest.Labels) = 0 =>
         /\ CallsOf({"Issues.ReplaceLabelsForIssue"}) = <<>>
         /\ (outResponse.kind = "ok" =>
               /\ Len(CallsOf({"Issues.AddLabelsToIssue"}))
                    = IF Len(outRequest.AddLabels) > 0 THEN 1 ELSE 0
               /\ Len(CallsOf({"Issues.RemoveLabelForIssue"}))
                    = Len(outRequest.RemoveLabels))

C16_Witness ==
  /\ OutDone
  /\ outRequest.Labels = <<"x">>
  /\ outRequest.AddLabels = <<"y">>
  /\ outRequest.RemoveLabels = <<"z", "w">>
  /\ outResponse.kind = "ok"
  /\ Len(CallsOf(LabelOps)) = 1

\* C17: a non-empty state of out's params that is not exactly "open" or
\* "closed" makes out fail without any call that changes the remote; with
\* "open" or "closed" the first such call out makes sets that state.
C17_StateValidated ==
  (OutDone /\ outRequest.State # "") =>
    IF outRequest.State \notin {"open", "closed"}
    THEN outResponse.kind = "error" /\ mutations = <<>>
    ELSE /\ mutations # <<>> =>
              (mutations[1].op = "Issues.Edit" /\ mutations[1].arg = outRequest.State)
         /\ outResponse.kind = "ok" => mutations # <<>>

C17_Witness ==
  /\ OutDone
  /\ HasPrID
  /\ outRequest \in FullParams
  /\ outRequest.State = "Open"
  /\ outResponse.kind = "error"
  /\ mutations = <<>>

\* the text out was given for the new comment, from the params or the file
InputText ==
  IF Len(outRequest.Comment) > 0 THEN outRequest.Comment
  ELSE IF outRequest.CommentFile \in DOMAIN dir THEN dir[outRequest.CommentFile].text
  ELSE <<>>

Posted == CallsOf({"Issues.CreateComment"})

\* the environments that give the variables of the build the values of env
SameBuild(e) == \A n \in AllowedNames : Getenv(e, n) = Getenv(env, n)

\* the posted text is the same under every environment that differs from
\* that of the run in other variables than the build's
C18_Independence ==
  (OutDone /\ Posted # <<>>) =>
    \A e \in Envs : SameBuild(e) => safeExpandEnv(InputText, e) = Posted[1].arg

\* every "$" of the text starts a reference, $NAME or ${NAME}
OnlyReferences(text) ==
  \A j \in DOMAIN text :
    text[j] = "$" =>
      /\ j < Len(text)
      /\ \/ text[j + 1] \in Letters
         \/ /\ text[j + 1] = "{"
            /\ j + 2 <= Len(text)
            /\ text[j + 2] \in Letters
            /\ ClosingBrace(text, j + 2) > 0

\* a text that refers to other variables than the build's only is posted as
\* it was written
C18_AsWritten ==
  (/\ OutDone
   /\ Posted # <<>>
   /\ OnlyReferences(InputText)
   /\ \A n \in AllowedNames : ~Contains(InputText, n))
    => Posted[1].arg = InputText

\* C18: the text out posts does not depend on the variables of the
\* environment other than BUILD_ID, BUILD_NAME, BUILD_JOB_NAME,
\* BUILD_PIPELINE_NAME, BUILD_TEAM_NAME and ATC_EXTERNAL_URL, and a reference
\* to another variable is in the posted text as it was written.
C18_OnlyBuildVariables == C18_Independence /\ C18_AsWritten

\* the comments of the token's user, by their place in the list
Authored(rem) == {k \in DOMAIN rem.comments : rem.comments[k].UserID = rem.user}

Last(S) == CHOOSE k \in S : \A m \in S : m <= k

\* the deletions among the calls are none, or the one of the last comment of
\* the token's user
DeletesLastOwn(calls, rem) ==
  LET deletions == SelectSeq(calls, LAMBDA c : c.op = "Issues.DeleteComment")
  IN /\ Len(deletions) <= 1
     /\ Authored(rem) = {} => deletions = <<>>
     /\ deletions # <<>> => deletions[1].arg = rem.comments[Last(Authored(rem))].ID

\* C19: DeleteLastPullRequestComment deletes at most one comment in a call,
\* the last of the list that the token's user wrote, never a comment of
\* another user; when the user wrote none it deletes nothing and succeeds.
C19_DeleteLastOwn ==
  /\ OutDone => DeletesLastOwn(mutations, remote)
  /\ Called("DeleteLastPullRequestComment") =>
       /\ DeletesLastOwn(call.ret.calls, call.arg.remote)
       /\ call.arg.failing = NoFailure =>
            /\ ~call.ret.err
            /\ Len(call.ret.calls) = IF Authored(call.arg.remote) = {} THEN 0 ELSE 1

C19_Witness ==
  /\ OutDone
  /\ outRequest.DeleteLastComment
  /\ Len(remote.comments) = 3
  /\ Authored(remote) = {1, 2}
  /\ outResponse.kind = "ok"
  /\ mutations = <<[op |-> "Issues.DeleteComment", pr |-> 1, arg |-> 32, ok |-> TRUE]>>

\* C20: a version with neither a comment id nor a review id makes in fail,
\* write no file into the output directory and return no response.
C20_NothingWritten ==
  (/\ inRequest # Nil
   /\ inRequest.Version.CommentID = <<>>
   /\ inRequest.Version.ReviewID = <<>>)
    => (inResponse.kind = "error" /\ dir = EmptyDir)

InDone == inRequest # Nil

InOk == InDone /\ inResponse.kind = "ok"

\* the name of the comment file of the request
CommentFileOf(req) ==
  IF req.Params.CommentFile # "" THEN req.Params.CommentFile ELSE "comment.txt"

\* the comment or the review the version of the request names
FetchedBody(req) ==
  IF req.Version.CommentID # <<>> THEN InComments[11].Body ELSE InReviews[21].Body

\* the places of the fields of that name
FieldsNamed(metadata, name) == {k \in DOMAIN metadata : metadata[k].Name = name}

\* the file named after field k holds the value of field k
FieldFileHolds(metadata, k) ==
  /\ metadata[k].Name \in DOMAIN dir
  /\ dir[metadata[k].Name] = [kind |-> "text", text |-> metadata[k].Value]

\* C21 as stated: after a successful in every field of the returned metadata
\* has a file of its name that holds its value, version.json and
\* metadata.json are there, and the comment file holds the body.
C21_FilePerField ==
  InOk =>
    /\ \A k \in DOMAIN inResponse.metadata : FieldFileHolds(inResponse.metadata, k)
    /\ {"version.json", "metadata.json"} \subseteq DOMAIN dir
    /\ CommentFileOf(inRequest) \in DOMAIN dir
    /\ dir[CommentFileOf(inRequest)] = [kind |-> "text", text |-> FetchedBody(inRequest)]

\* C21, amended: after a successful in every name of a field of the returned
\* metadata has a file that holds the value of the last field of that name,
\* version.json and metadata.json are there, and the comment file holds the
\* body unless its name is that of a field, version.json or metadata.json.
C21_FilePerFieldName ==
  InOk =>
    /\ \A k \in DOMAIN inResponse.metadata :
         (\A m \in FieldsNamed(inResponse.metadata, inResponse.metadata[k].Name) : m <= k)
           => FieldFileHolds(inResponse.metadata, k)
    /\ {"version.json", "metadata.json"} \subseteq DOMAIN dir
    /\ CommentFileOf(inRequest) \in DOMAIN dir
    /\ (/\ FieldsNamed(inResponse.metadata, CommentFileOf(inRequest)) = {}
        /\ CommentFileOf(inRequest) \notin {"version.json", "metadata.json"}) =>
         dir[CommentFileOf(inRequest)]
           = [kind |-> "text", text |-> FetchedBody(inRequest)]

C21_Witness ==
  /\ InOk
  /\ source.MapCommentMeta
  /\ \E k, m \in DOMAIN inResponse.metadata :
       /\ k < m
       /\ inResponse.metadata[k].Name = "cmd"
       /\ inResponse.metadata[m].Name = "cmd"
       /\ inResponse.metadata[k].Value # inResponse.metadata[m].Value
       /\ dir["cmd"] = [kind |-> "text", text |-> inResponse.metadata[m].Value]
  /\ dir["comment.txt"] = [kind |-> "text", text |-> <<"p", "i", "n", "g">>]

\* the value of the first field of that name, Nil when there is none
FieldValue(metadata, name) ==
  IF FieldsNamed(metadata, name) = {} THEN Nil
  ELSE metadata[CHOOSE k \in FieldsNamed(metadata, name) :
                  \A m \in FieldsNamed(metadata, name) : k <= m].Value

\* C22: for a version with a comment id the metadata in returns holds the
\* head and base ref and sha of the pull request and the fields of the
\* comment, each under its name.
C22_CommentMetadata ==
  (InOk /\ inRequest.Version.CommentID # <<>>) =>
    LET value(name) == FieldValue(inResponse.metadata, name)
    IN /\ value("pr_id") = inRequest.Version.PrID
       /\ value("pr_head_ref") = InPulls[1].HeadRef
       /\ value("pr_head_sha") = InPulls[1].HeadSHA
       /\ value("pr_base_ref") = InPulls[1].BaseRef
       /\ value("pr_base_sha") = InPulls[1].BaseSHA
       /\ value("comment_id") = inRequest.Version.CommentID
       /\ value("body") = InComments[11].Body
       /\ value("created_at") = InComments[11].CreatedAt
       /\ value("updated_at") = InComments[11].UpdatedAt
       /\ value("author_association") = InComments[11].AuthorAssociation
       /\ value("html_url") = InComments[11].HTMLURL
       /\ value("user_login") = InComments[11].UserLogin
       /\ value("user_id") = FormatInt(InComments[11].UserID)
       /\ value("user_avatar_url") = InComments[11].UserAvatarURL
       /\ value("user_html_url") = InComments[11].UserHTMLURL

C22_Witness ==
  /\ InOk
  /\ inRequest.Version.CommentID = <<"1", "1">>
  /\ FieldValue(inResponse.metadata, "pr_head_sha") = <<"a", "1">>
  /\ FieldValue(inResponse.metadata, "pr_base_ref") = <<"m">>
  /\ FieldValue(inResponse.metadata, "user_login") = <<"a", "m", "y">>

\* what the named groups of each pattern of the model capture in the body
\* ping: the group names and texts as the syntax of the patterns defines them
NamedCaptures(pattern) ==
  CASE pattern = GroupPatterns.one -> {[Name |-> "cmd", Value |-> <<"p">>]}
    [] pattern = GroupPatterns.two ->
         {[Name |-> "cmd", Value |-> <<"p", "i">>], [Name |-> "arg", Value |-> <<"n", "g">>]}
    [] pattern = GroupPatterns.optional -> {[Name |-> "arg", Value |-> <<>>]}
    [] pattern = GroupPatterns.body -> {[Name |-> "body", Value |-> <<"p", "i", "n">>]}
    [] pattern = GroupPatterns.twice ->
         {[Name |-> "cmd", Value |-> <<"p">>], [Name |-> "cmd", Value |-> <<"i">>]}
    [] OTHER -> {}

\* the fields in adds after those of InMetadata, as metadata.json has them
AddedFields ==
  LET metadata == jsonUnmarshalMetadata(dir["metadata.json"]).value
  IN SubSeq(metadata, 16, Len(metadata))

\* the fields the claim lets in add for the patterns from k on
RECURSIVE ExpectedFields(_, _)
ExpectedFields(patterns, k) ==
  IF k > Len(patterns) THEN {}
  ELSE {[pattern |-> k, field |-> f] : f \in NamedCaptures(patterns[k])}
         \cup ExpectedFields(patterns, k + 1)

\* C23: with map_comment_meta set in adds, for each pattern of comments that
\* matches the body, one field for each named group, of its name and with
\* the text it captured, empty if the group took no part; a pattern that
\* does not match or has no named group adds none; with map_comment_meta
\* unset no field is added.
C23_NamedGroupsOnly ==
  (InDone /\ "metadata.json" \in DOMAIN dir /\ inRequest.Version.CommentID # <<>>) =>
    LET expected == IF source.MapCommentMeta THEN ExpectedFields(source.Comments, 1)
                    ELSE {}
    IN /\ Len(AddedFields) = Cardinality(expected)
       /\ \A k \in DOMAIN AddedFields : \E e \in expected : e.field = AddedFields[k]
       /\ \A e \in expected : \E k \in DOMAIN AddedFields : e.field = AddedFields[k]

\* the last parts of the path that are integers, each with the number it
\* stands for
IntegerParts ==
  {<<<<"4", "2">>, 42>>, <<<<"7">>, 7>>, <<<<"0">>, 0>>, <<<<"-", "3">>, 0 - 3>>,
   <<<<"+", "5">>, 5>>, <<<<"0", "4", "2">>, 42>>,
   <<<<"%", "3", "4", "%", "3", "2">>, 42>>}

\* C24: for a URL .../issues/<n>#issuecomment-<id> or .../pull/<n>#..., with
\* or without the fragment, ParseCommentHTMLURL returns the integer the last
\* part of the path stands for, and an error when that part is no integer.
C24_ParseCommentHTMLURL ==
  (/\ Called("ParseCommentHTMLURL")
   /\ Len(call.arg.prefix) > 4
   /\ call.arg.suffix \in {<<>>, <<"#", "i", "-", "7">>}) =>
    /\ \A p \in IntegerParts :
         p[1] = call.arg.number => call.ret = [value |-> p[2], err |-> FALSE]
    /\ (\A p \in IntegerParts : p[1] # call.arg.number) => call.ret.err

C24_Witness ==
  /\ Called("ParseCommentHTMLURL")
  /\ call.arg.prefix = <<"h", ":", "/", "/", "e", "/", "o", "/", "r", "/", "p", "u", "l", "l", "/">>
  /\ call.arg.number = <<"4", "2">>
  /\ call.arg.suffix = <<"#", "i", "-", "7">>
  /\ call.ret = [value |-> 42, err |-> FALSE]

-----------------------------------------------------------------------------
(* SpecSort: the sort that ends Check, on lists longer than the lists of   *)
(* versions Spec collects                                                  *)

MaxSorted == 7

\* versions of comments in the order Check collected them: the k-th is of
\* comment k, created at second 1 or 2
SortInputs ==
  UNION {{[k \in 1..n |->
             [CreatedAt |-> <<t[k]>>, PrID |-> <<"1">>, CommentID |-> FormatInt(k),
              ReviewID |-> <<>>]] : t \in [1..n -> {"1", "2"}]} : n \in 0..MaxSorted}

InitSort ==
  /\ pc = "sort"
  /\ source = EmptySource
  /\ requestVersion = Nil
  /\ call = Nil
  /\ CheckIdle
  /\ IoIdle

\* sort.Slice(versions, func(i, j int) bool { ... })
CallSortSlice ==
  /\ pc = "sort"
  /\ \E list \in SortInputs : \E sorted \in SortSlice(list) :
       call' = [fn |-> "sort.Slice", arg |-> list, ret |-> sorted]
  /\ pc' = "done"
  /\ UNCHANGED <<source, requestVersion, ioVars>>
  /\ UNCHANGED <<when, i, pull, comments, reviews, version, versions,
                 trackStart, apiCalls, listed, skipped, response>>

NextSort == CallSortSlice

SpecSort == InitSort /\ [][NextSort]_vars

\* the place of the version in the list
PlaceIn(list, v) == CHOOSE k \in DOMAIN list : list[k] = v

\* C25: the sort that ends check is stable: two versions with equal
\* creation times are in the result in the order in which they were
\* collected.
C25_StableSort ==
  Called("sort.Slice") =>
    \A a, b \in DOMAIN call.arg :
      (a < b /\ call.arg[a].CreatedAt = call.arg[b].CreatedAt) =>
        PlaceIn(call.ret, call.arg[a]) < PlaceIn(call.ret, call.arg[b])

-----------------------------------------------------------------------------
(* Claims on check: the review track, the mode, the request version *)

\* the review track of the current pull has just run on a non-empty answer
ReviewTrackDone == pc = "pulls" /\ Len(reviews) > 0

ReviewMatches(r) ==
  /\ requestsReviewState(Req, r.State)
  /\ requestsCommentRegex(Req, r.Body)

\* version v references review r of pull number n
RefersToReview(v, n, r) ==
  /\ v.PrID = FormatInt(n)
  /\ v.ReviewID = FormatInt(r.ID)
  /\ v.CommentID = <<>>

\* C28: in the review track a review yields a version only if its state is
\* accepted by requestsReviewState and its body by requestsCommentRegex; a
\* review whose state is requested but whose body fails the text filter is a
\* non-match and, in the mode latest, resets the track like any other
\* non-matching review.
C28_ReviewNeedsStateAndBody ==
  ReviewTrackDone =>
    /\ \A m \in DOMAIN TrackEmitted :
         \E k \in DOMAIN reviews :
           /\ RefersToReview(TrackEmitted[m], pull.Number, reviews[k])
           /\ ReviewMatches(reviews[k])
    /\ when = "latest" =>
         IF ReviewMatches(reviews[Len(reviews)])
         THEN /\ Len(TrackEmitted) = 1
              /\ RefersToReview(TrackEmitted[1], pull.Number, reviews[Len(reviews)])
         ELSE TrackEmitted = <<>>

\* in the mode latest a matching review is followed by one whose state is
\* requested and whose body the text filter rejects: nothing is emitted
C28_Witness ==
  /\ ReviewTrackDone
  /\ when = "latest"
  /\ Len(reviews) = 2
  /\ ReviewMatches(reviews[1])
  /\ requestsReviewState(Req, reviews[2].State)
  /\ ~requestsCommentRegex(Req, reviews[2].Body)
  /\ TrackEmitted = <<>>

\* when is neither empty nor one of the three modes
UnknownWhen == source.When \notin {"", "all", "latest", "first"}

\* a step of check failed for a reason the mode has no part in
CheckStepFailed ==
  \/ parseRepository(source.Repository).err
  \/ \E c \in apiCalls : ~c.ok

\* C29: when the setting when is non-empty and none of all, latest and first,
\* check collects and returns no version for any pulls, comments and reviews,
\* and ends with an error only when a step failed; only an empty when is
\* replaced by the default latest.
C29_UnknownWhenNoVersions ==
  /\ UnknownWhen =>
       /\ versions = <<>>
       /\ response.kind = "ok" => response.versions = <<>>
       /\ response.kind = "error" => CheckStepFailed
  /\ (pc \in {"list", "pulls", "comments", "reviews"} \/ response.kind = "ok") =>
       when = (IF source.When = "" THEN "latest" ELSE source.When)

\* under when = newest the last review of a pull passed every filter and
\* built the local version, and nothing was collected
C29_Witness ==
  /\ source.When = "newest"
  /\ ReviewTrackDone
  /\ ReviewMatches(reviews[Len(reviews)])
  /\ RefersToReview(version, pull.Number, reviews[Len(reviews)])
  /\ versions = <<>>

MatchingReviews == {k \in DOMAIN reviews : ReviewMatches(reviews[k])}

\* the positions of a list the mode selects among the matching ones
Selected(matching, n) ==
  CASE when = "all" -> matching
    [] when = "first" -> {k \in matching : \A m \in matching : k <= m}
    [] when = "latest" -> matching \cap {n}
    [] OTHER -> {}

\* the position of k among the selected positions
RankIn(sel, k) == Cardinality({m \in sel : m <= k})

\* C30: the result of check does not depend on the version of the request:
\* each track emits the versions of the comments or reviews that the source
\* and the remote data select, one each and in list order, whatever version
\* the request carries, so a version at or before the given one is returned
\* again.
C30_RequestVersionIgnored ==
  /\ CommentTrackDone =>
       LET sel == Selected(MatchingComments, Len(comments))
       IN /\ Len(TrackEmitted) = Cardinality(sel)
          /\ \A k \in sel :
               TrackEmitted[RankIn(sel, k)] = CommentVersion(pull.Number, comments[k])
  /\ ReviewTrackDone =>
       LET sel == Selected(MatchingReviews, Len(reviews))
       IN /\ Len(TrackEmitted) = Cardinality(sel)
          /\ \A k \in sel :
               TrackEmitted[RankIn(sel, k)] = ReviewVersion(pull.Number, reviews[k])

\* check returned the version the request carried together with an older one
C30_Witness ==
  /\ response.kind = "ok"
  /\ requestVersion \in Range(Returned)
  /\ \E v \in Range(Returned) :
       ParseNat(v.CreatedAt) < ParseNat(requestVersion.CreatedAt)

-----------------------------------------------------------------------------
(* Claims on the order of the steps of Out and In *)

\* the operations of the calls Out made on the remote, in the order made
MutationOps == [k \in DOMAIN mutations |-> mutations[k].op]

\* the token's user has a comment on the pull request
HasOwnComment == Authored(remote) # {}

\* the text the params give for the new comment: the parameter, else the
\* content of the file where that can be read
RequestedComment ==
  IF Len(outRequest.Comment) > 0 THEN outRequest.Comment
  ELSE IF outRequest.CommentFile # "" /\ outRequest.CommentFile \in DOMAIN dir
    THEN dir[outRequest.CommentFile].text
  ELSE <<>>

\* the changes the params ask for, as calls on the remote in the order
\* state, deletion of the last comment, labels, new comment
RequestedOps ==
  (IF outRequest.State # "" THEN <<"Issues.Edit">> ELSE <<>>)
    \o (IF outRequest.DeleteLastComment /\ HasOwnComment
        THEN <<"Issues.DeleteComment">> ELSE <<>>)
    \o (IF Len(outRequest.Labels) > 0 THEN <<"Issues.ReplaceLabelsForIssue">>
        ELSE (IF Len(outRequest.AddLabels) > 0
              THEN <<"Issues.AddLabelsToIssue">> ELSE <<>>)
               \o [k \in DOMAIN outRequest.RemoveLabels |->
                     "Issues.RemoveLabelForIssue"])
    \o (IF Len(RequestedComment) > 0 THEN <<"Issues.CreateComment">> ELSE <<>>)

\* C27: Out attempts the requested changes in the order state, deletion of
\* the last comment, labels (replaced, or added and then removed), new
\* comment, and stops at the first that fails: a change is attempted only if
\* every requested change before it succeeded, the changes made stay, and
\* Out then returns an error and no version or metadata.
C27_FixedOrderStopAtFailure ==
  (OutDone /\ outRequest # Nil) =>
    /\ Len(MutationOps) <= Len(RequestedOps)
    /\ MutationOps = SubSeq(RequestedOps, 1, Len(MutationOps))
    /\ \A k \in DOMAIN mutations :
         ~mutations[k].ok => k = Len(mutations) /\ outResponse.kind = "error"
    /\ outResponse.kind = "ok" => MutationOps = RequestedOps
    /\ outResponse.kind = "error" => DOMAIN outResponse = {"kind"}

\* the state was set, the last comment deleted, a label added and one
\* removed; the removal of the second label failed, and the comment the
\* params ask for was not posted
C27_Witness ==
  /\ OutDone
  /\ outResponse.kind = "error"
  /\ Len(outRequest.Comment) > 0
  /\ MutationOps = <<"Issues.Edit", "Issues.DeleteComment", "Issues.AddLabelsToIssue",
                     "Issues.RemoveLabelForIssue", "Issues.RemoveLabelForIssue">>
  /\ \A k \in 1..4 : mutations[k].ok
  /\ ~mutations[5].ok

-----------------------------------------------------------------------------
(* Claim on the steps of the In that reads the pull request's number from  *)
(* the URL of the comment                                                  *)

\* this In has run
RefDone == pc = "done" /\ inRequest # Nil /\ DOMAIN inRequest.Version = {"Ref"}

\* it ended with an error at one of the steps
RefFailedAt(steps) ==
  RefDone /\ inResponse.kind = "error" /\ inResponse.step \in steps

\* the metadata that metadata.json holds, if In has written it
RefWrittenMetadata ==
  IF "metadata.json" \in DOMAIN dir /\ dir["metadata.json"].kind = "json"
  THEN jsonUnmarshalMetadata(dir["metadata.json"]).value
  ELSE <<>>

\* what the steps of In write, in the order of the steps: the comment file
\* as os.Create leaves it, the comment file with the body, version.json,
\* metadata.json, and the file of each field of the metadata
RefWrites ==
  LET comment == RefComments[ParseInt(inRequest.Version.Ref).value]
  IN <<[name |-> CommentFileOf(inRequest), content |-> TextFile(<<>>)],
       [name |-> CommentFileOf(inRequest), content |-> TextFile(comment.Body)],
       [name |-> "version.json",
        content |-> JsonFile(jsonMarshalRef(inRequest.Version))],
       [name |-> "metadata.json",
        content |-> JsonFile(jsonMarshalMetadata(RefWrittenMetadata))]>>
       \o [k \in DOMAIN RefWrittenMetadata |->
             [name |-> RefWrittenMetadata[k].Name,
              content |-> TextFile(RefWrittenMetadata[k].Value)]]

\* the directory the first n of these writes leave: each file named holds
\* what the last write to it put there, and there is no other file
Written(writes, n) ==
  [name \in {writes[k].name : k \in 1..n} |->
     writes[CHOOSE k \in 1..n :
              /\ writes[k].name = name
              /\ \A m \in 1..n : writes[m].name = name => m <= k].content]

\* C26: when a step of in fails, in aborts at once: no response is returned
\* and the output directory holds what the steps before the failing one
\* wrote and nothing of a later step.  In particular, when the number of the
\* pull request cannot be read from the URL of the comment, the comment file
\* is there and holds the body, while version.json, metadata.json and the
\* files of the fields are not written.
C26_AbortsAtFailedStep ==
  (RefDone /\ inResponse.kind = "error") =>
    /\ DOMAIN inResponse = {"kind", "step"}
    /\ RefFailedAt({"NewGithubClient", "strconv.ParseInt", "Issues.GetComment",
                    "os.MkdirAll", "os.Create"}) => dir = EmptyDir
    /\ RefFailedAt({"File.Truncate", "File.WriteString"}) =>
         dir = Written(RefWrites, 1)
    /\ RefFailedAt({"ParseCommentHTMLURL", "regexp.MustCompile"}) =>
         dir = Written(RefWrites, 2)
    /\ RefFailedAt({"ioutil.WriteFile"}) =>
         \E n \in 2..(3 + Len(RefWrittenMetadata)) : dir = Written(RefWrites, n)
    /\ RefFailedAt({"ParseCommentHTMLURL"}) =>
         /\ CommentFileOf(inRequest) \in DOMAIN dir
         /\ dir[CommentFileOf(inRequest)] = TextFile(RefComments[12].Body)
         /\ DOMAIN dir = {CommentFileOf(inRequest)}

\* the URL of the comment 12 names no pull request: comment.txt holds the
\* body and is the only file
C26_Witness ==
  /\ RefFailedAt({"ParseCommentHTMLURL"})
  /\ inRequest.Version.Ref = <<"1", "2">>
  /\ inRequest.Params.CommentFile = ""
  /\ dir = [n \in {"comment.txt"} |-> TextFile(<<"p", "i", "n", "g">>)]

====
